---- MODULE Spec2Model ----
(***************************************************************************)
(* PromptExpander: the expansion controller of the content script          *)
(* (src/content.js), the variable resolver and token estimate of the       *)
(* background script (src/background.js).                                  *)
(*                                                                         *)
(* Text is a sequence of one-character strings.  The page holds three      *)
(* editable elements: "ta" (a TEXTAREA), "ce" (a contenteditable DIV) and  *)
(* "ex" (a TEXTAREA inside .prompt-expander-exclude).                      *)
(***************************************************************************)
EXTENDS Integers, Sequences, FiniteSets, TLC

(***************************************************************************)
(* Bounds of the exploration.                                              *)
(***************************************************************************)
\* the characters the user types in one behaviour
MaxTyped == 2
\* commit keys are explored only while the history holds fewer records
MaxHist == 2
\* form modals open at the same time
MaxModals == 1

(***************************************************************************)
(* JavaScript values that are not numbers, as they arise for positions.    *)
(***************************************************************************)
\* element.selectionStart of an element that has no such property (a DIV)
Undefined == -1
\* undefined - n
NaN == -2

Min2(a, b) == IF a <= b THEN a ELSE b
Max2(a, b) == IF a >= b THEN a ELSE b

\* ToIntegerOrInfinity followed by the clamp of String.prototype.substring;
\* NaN and undefined (as a start index) become 0
ClampIndex(n, len) == IF n < 0 THEN 0 ELSE IF n > len THEN len ELSE n

\* String.prototype.substring(a, b); an undefined end is the length
Substring(text, a, b) ==
    LET len == Len(text)
        s   == ClampIndex(a, len)
        e   == IF b = Undefined THEN len ELSE ClampIndex(b, len)
    IN  SubSeq(text, Min2(s, e) + 1, Max2(s, e))

\* String.prototype.substring(a)
SubstringFrom(text, a) == Substring(text, a, Undefined)

\* a - b of JavaScript, on a number or undefined
Minus(a, b) == IF a = Undefined \/ a = NaN THEN NaN ELSE a - b

\* a + b of JavaScript, on a number, NaN or undefined
Plus(a, b) == IF a = Undefined \/ a = NaN THEN NaN ELSE a + b

\* a >= b of JavaScript: false when either side is NaN or undefined
GreaterEq(a, b) == a >= 0 /\ b >= 0 /\ a >= b

(***************************************************************************)
(* Character classes of the regular expressions.                           *)
(***************************************************************************)
Letters ==
    {"a", "b", "c", "d", "e", "f", "g", "h", "i", "j", "k", "l", "m", "n",
     "o", "p", "q", "r", "s", "t", "u", "v", "w", "x", "y", "z"}
UpperLetters ==
    {"A", "B", "C", "D", "E", "F", "G", "H", "I", "J", "K", "L", "M", "N",
     "O", "P", "Q", "R", "S", "T", "U", "V", "W", "X", "Y", "Z"}
Digits == {"0", "1", "2", "3", "4", "5", "6", "7", "8", "9"}
\* \w
RegexWord == Letters \cup UpperLetters \cup Digits \cup {"_"}
\* [\w\d_-]
TriggerChars == RegexWord \cup Digits \cup {"_", "-"}

(***************************************************************************)
(* Trigger scanner.                                                        *)
(***************************************************************************)
NoMatch == [matched |-> FALSE, trigger |-> <<>>, length |-> 0]

\* a scan that lets the prefix stand with no trigger character after it
triggerMatchAllowingEmptyName(beforeCursor, prefix) ==
    LET n      == Len(beforeCursor)
        starts == {i \in 1..n :
                      /\ beforeCursor[i] = prefix
                      /\ \A j \in (i + 1)..n : beforeCursor[j] \in TriggerChars}
    IN  IF starts = {} THEN NoMatch
        ELSE LET i == CHOOSE x \in starts : \A y \in starts : x <= y
             IN  [matched |-> TRUE,
                  trigger |-> SubSeq(beforeCursor, i + 1, n),
                  length  |-> n - i + 1]

\* beforeCursor.match(new RegExp(escapeRegex(prefix) + '([\w\d_-]+)$')):
\* the leftmost place where the prefix is followed by trigger characters
\* up to the end of the text, at least one of them
triggerMatch(beforeCursor, prefix) ==
    LET n      == Len(beforeCursor)
        starts == {i \in 1..(n - 1) :
                      /\ beforeCursor[i] = prefix
                      /\ \A j \in (i + 1)..n : beforeCursor[j] \in TriggerChars}
    IN  IF starts = {} THEN NoMatch
        ELSE LET i == CHOOSE x \in starts : \A y \in starts : x <= y
             IN  [matched |-> TRUE,
                  trigger |-> SubSeq(beforeCursor, i + 1, n),
                  length  |-> n - i + 1]

(***************************************************************************)
(* Variable resolver (background script).                                  *)
(***************************************************************************)
\* const maxIterations = 10
maxIterations == 10

OpenBraces == <<"{", "{">>

\* String.prototype.includes
Includes(text, part) ==
    \E i \in 1..(Len(text) - Len(part) + 1) :
        SubSeq(text, i, i + Len(part) - 1) = part

\* one character of a key, read as a regular expression, against one
\* character of the text: "." matches anything but a line break
KeyCharMatches(k, c) == IF k = "." THEN c # "\n" ELSE k = c

\* the pattern \{\{ + key + \}\} matches text at offset i (1-based)
PlaceholderAt(text, key, i) ==
    LET n == Len(key)
    IN  /\ i + n + 3 <= Len(text)
        /\ text[i] = "{" /\ text[i + 1] = "{"
        /\ \A j \in 1..n : KeyCharMatches(key[j], text[i + 1 + j])
        /\ text[i + n + 2] = "}" /\ text[i + n + 3] = "}"

\* GetSubstitution of String.prototype.replace with a string replacement:
\* $$ is a dollar sign and $& the matched text; a $ before any other
\* character of the texts modelled here is literal (the patterns that
\* insert the text before or after the match are not modelled)
RECURSIVE GetSubstitution(_, _, _)
GetSubstitution(repl, k, matched) ==
    IF k > Len(repl) THEN <<>>
    ELSE IF repl[k] = "$" /\ k < Len(repl) /\ repl[k + 1] \in {"$", "&"}
         THEN (IF repl[k + 1] = "$" THEN <<"$">> ELSE matched)
              \o GetSubstitution(repl, k + 2, matched)
         ELSE <<repl[k]>> \o GetSubstitution(repl, k + 1, matched)

\* resolved.replace(regex /g, value): every match, left to right, none of
\* them overlapping, the inserted text not scanned again
RECURSIVE ReplaceFrom(_, _, _, _)
ReplaceFrom(text, key, repl, from) ==
    LET n    == Len(key) + 4
        hits == {i \in from..(Len(text) - n + 1) : PlaceholderAt(text, key, i)}
    IN  IF hits = {} THEN SubSeq(text, from, Len(text))
        ELSE LET i == CHOOSE x \in hits : \A y \in hits : x <= y
             IN  SubSeq(text, from, i - 1)
                 \o GetSubstitution(repl, 1, SubSeq(text, i, i + n - 1))
                 \o ReplaceFrom(text, key, repl, i + n)

ReplaceAll(text, key, repl) == ReplaceFrom(text, key, repl, 1)

\* a merge in which a key already present keeps its value
PutVariableKeepingFirst(table, kv) ==
    IF \E i \in 1..Len(table) : table[i].key = kv.key
    THEN table
    ELSE Append(table, kv)

\* { ...table, [kv.key]: kv.value }: a key already present keeps its place
PutVariable(table, kv) ==
    IF \E i \in 1..Len(table) : table[i].key = kv.key
    THEN [i \in 1..Len(table) |->
             IF table[i].key = kv.key THEN kv ELSE table[i]]
    ELSE Append(table, kv)

RECURSIVE SpreadFormData(_, _)
SpreadFormData(table, formData) ==
    IF formData = <<>> THEN table
    ELSE SpreadFormData(PutVariable(table, Head(formData)), Tail(formData))

\* the wall clock of one resolve call
DateString == <<"D">>
TimeString == <<"T">>
DateTimeString == <<"D", ",", "T">>

\* const variables = { date: ..., ...context.formData }, in key order
VariableTable(context) ==
    SpreadFormData(
        << [key |-> <<"d", "a", "t", "e">>, value |-> DateString],
           [key |-> <<"t", "i", "m", "e">>, value |-> TimeString],
           [key |-> <<"d", "a", "t", "e", "t", "i", "m", "e">>,
            value |-> DateTimeString],
           [key |-> <<"p", "a", "g", "e", "_", "t", "i", "t", "l", "e">>,
            value |-> context.pageTitle],
           [key |-> <<"p", "a", "g", "e", "_", "u", "r", "l">>,
            value |-> context.pageUrl],
           [key |-> <<"s", "e", "l", "e", "c", "t", "e", "d", "_", "t", "e", "x", "t">>,
            value |-> context.selectedText],
           [key |-> <<"c", "l", "i", "p", "b", "o", "a", "r", "d">>,
            value |-> context.clipboard],
           [key |-> <<"d", "o", "m", "a", "i", "n">>,
            value |-> context.domain] >>,
        context.formData)

\* Object.keys(variables).forEach(key => resolved = resolved.replace(...))
RECURSIVE ReplacePass(_, _, _)
ReplacePass(resolved, table, k) ==
    IF k > Len(table) THEN resolved
    ELSE ReplacePass(ReplaceAll(resolved, table[k].key, table[k].value),
                     table, k + 1)

\* a loop that allows one pass more than maxIterations
RECURSIVE ResolveLoopOnePassMore(_, _, _)
ResolveLoopOnePassMore(resolved, table, iterations) ==
    IF Includes(resolved, OpenBraces) /\ iterations <= maxIterations
    THEN LET next == ReplacePass(resolved, table, 1)
         IN  IF next = resolved THEN resolved
             ELSE ResolveLoopOnePassMore(next, table, iterations + 1)
    ELSE resolved

\* while (resolved.includes('{{') && iterations < maxIterations) { ... }
RECURSIVE ResolveLoop(_, _, _)
ResolveLoop(resolved, table, iterations) ==
    IF Includes(resolved, OpenBraces) /\ iterations < maxIterations
    THEN LET next == ReplacePass(resolved, table, 1)
         IN  IF next = resolved THEN resolved
             ELSE ResolveLoop(next, table, iterations + 1)
    ELSE resolved

\* a resolver that returns nothing for a text without {{
resolveVariablesDroppingPlainText(text, context) ==
    IF Includes(text, OpenBraces)
    THEN ResolveLoop(text, VariableTable(context), 0)
    ELSE <<>>

resolveVariables(text, context) == ResolveLoop(text, VariableTable(context), 0)

\* an estimate that rounds down
estimateTokensRoundingDown(text) == Len(text) \div 4

\* Math.ceil(text.length / 4)
estimateTokens(text) == (Len(text) + 3) \div 4

\* case 'RESOLVE_VARIABLES': sendResponse({ resolved, tokens })
ResolveResponse(message) ==
    LET resolved == resolveVariables(message.text, message.context)
    IN  [resolved |-> resolved, tokens |-> estimateTokens(resolved)]

(***************************************************************************)
(* Template wrapper.                                                       *)
(***************************************************************************)
TemplateMarker == <<"[", "t", "e", "m", "p", "l", "a", "t", "e", ":">>

\* content.match(/^\[template:(\w+)\](.*)/s)
templateMatch(content) ==
    LET p    == Len(TemplateMarker)
        n    == Len(content)
        \* the greedy \w+ run after the marker
        ends == {j \in p..n : \A x \in (p + 1)..j : content[x] \in RegexWord}
        last == CHOOSE j \in ends : \A y \in ends : y <= j
    IN  IF /\ n > p
           /\ SubSeq(content, 1, p) = TemplateMarker
           /\ last > p
           /\ last < n
           /\ content[last + 1] = "]"
        THEN [matched |-> TRUE,
              name    |-> SubSeq(content, p + 1, last),
              rest    |-> SubSeq(content, last + 2, n)]
        ELSE [matched |-> FALSE, name |-> <<>>, rest |-> <<>>]

\* a match without the s flag: the rest-content ends at the first line break
applyTemplateWrappingFirstLineOnly(content, templates) ==
    LET m     == templateMatch(content)
        ends  == {j \in 0..Len(m.rest) : \A x \in 1..j : m.rest[x] # "\n"}
        line  == SubSeq(m.rest, 1, CHOOSE j \in ends : \A y \in ends : y <= j)
    IN  IF m.matched /\ m.name \in DOMAIN templates
        THEN templates[m.name].pre \o line \o templates[m.name].post
        ELSE content

applyTemplateWrapping(content, templates) ==
    LET m == templateMatch(content)
    IN  IF m.matched /\ m.name \in DOMAIN templates
        THEN templates[m.name].pre \o m.rest \o templates[m.name].post
        ELSE content

(***************************************************************************)
(* Form builder: the output the Generate button builds from the fields.    *)
(***************************************************************************)
LowerAlphabet ==
    <<"a", "b", "c", "d", "e", "f", "g", "h", "i", "j", "k", "l", "m", "n",
      "o", "p", "q", "r", "s", "t", "u", "v", "w", "x", "y", "z">>
UpperAlphabet ==
    <<"A", "B", "C", "D", "E", "F", "G", "H", "I", "J", "K", "L", "M", "N",
      "O", "P", "Q", "R", "S", "T", "U", "V", "W", "X", "Y", "Z">>

\* String.prototype.toLowerCase
toLowerCase(text) ==
    [i \in 1..Len(text) |->
        IF text[i] \in UpperLetters
        THEN LowerAlphabet[CHOOSE k \in 1..Len(UpperAlphabet) :
                                UpperAlphabet[k] = text[i]]
        ELSE text[i]]

\* \s
Whitespace == {" ", "\t", "\n"}

\* text.replace(/\s+/g, '_')
RECURSIVE WhitespaceRunsToUnderscore(_)
WhitespaceRunsToUnderscore(text) ==
    IF text = <<>> THEN <<>>
    ELSE IF Head(text) \notin Whitespace
    THEN <<Head(text)>> \o WhitespaceRunsToUnderscore(Tail(text))
    ELSE IF Len(text) > 1 /\ text[2] \in Whitespace
    THEN WhitespaceRunsToUnderscore(Tail(text))
    ELSE <<"_">> \o WhitespaceRunsToUnderscore(Tail(text))

\* key.replace(/_/g, ' ')
UnderscoresToSpaces(key) ==
    [i \in 1..Len(key) |-> IF key[i] = "_" THEN " " ELSE key[i]]

\* field.label.toLowerCase().replace(/\s+/g, '_')
FormDataKey(label) == WhitespaceRunsToUnderscore(toLowerCase(label))

\* formFields.forEach(... formData[key] = value ...): the object as the
\* sequence of its properties in the order they were created
RECURSIVE CollectFormData(_, _)
CollectFormData(formData, fields) ==
    IF fields = <<>> THEN formData
    ELSE CollectFormData(
            PutVariable(formData, [key   |-> FormDataKey(Head(fields).label),
                                   value |-> Head(fields).value]),
            Tail(fields))

\* a property name that is an array index: a canonical decimal number
IsArrayIndex(key) ==
    /\ key # <<>>
    /\ \A i \in 1..Len(key) : key[i] \in Digits
    /\ (Len(key) = 1 \/ key[1] # "0")

RECURSIVE IndexValue(_)
IndexValue(key) ==
    IF key = <<>> THEN 0
    ELSE 10 * IndexValue(SubSeq(key, 1, Len(key) - 1))
         + (CHOOSE n \in 0..9 :
               <<"0", "1", "2", "3", "4", "5", "6", "7", "8", "9">>[n + 1]
                  = key[Len(key)])

\* Object.keys(formData): the array indices in ascending order, then the
\* other names in the order of their creation
RECURSIVE AscendingIndices(_)
AscendingIndices(props) ==
    IF props = <<>> THEN <<>>
    ELSE LET least == CHOOSE i \in 1..Len(props) :
                         \A j \in 1..Len(props) :
                            IndexValue(props[i].key) <= IndexValue(props[j].key)
         IN  <<props[least]>>
             \o AscendingIndices(SubSeq(props, 1, least - 1)
                                 \o SubSeq(props, least + 1, Len(props)))

ObjectKeys(formData) ==
    AscendingIndices(SelectSeq(formData, LAMBDA p : IsArrayIndex(p.key)))
    \o SelectSeq(formData, LAMBDA p : ~IsArrayIndex(p.key))

\* output += key.replace(/_/g, ' ') + ': ' + formData[key] + '\n'
RECURSIVE FormLines(_)
FormLines(props) ==
    IF props = <<>> THEN <<>>
    ELSE UnderscoresToSpaces(Head(props).key) \o <<":", " ">> \o Head(props).value
         \o <<"\n">> \o FormLines(Tail(props))

\* the click handler of #generateForm: whether the fields pass validation
\* and the output it inserts
generateForm(fields) ==
    [valid  |-> fields # <<>> /\ \A i \in 1..Len(fields) : fields[i].value # <<>>,
     output |-> FormLines(ObjectKeys(CollectFormData(<<>>, fields)))]

(***************************************************************************)
(* The page and the configuration of the content script.                   *)
(***************************************************************************)
Elements == {"ta", "ce", "ex"}
\* the elements the user edits in the behaviours explored
UserSurfaces == {"ta"}
\* the elements the user types into
TypedSurfaces == {"ta"}

tagName == [e \in Elements |-> IF e = "ce" THEN "DIV" ELSE "TEXTAREA"]
isContentEditable == [e \in Elements |-> e = "ce"]
\* element.closest('.prompt-expander-exclude')
InExcludedSubtree == [e \in Elements |-> e = "ex"]

\* config.triggerPrefix
triggerPrefix == ":"

FormTrigger == <<"f", "o", "r", "m">>

\* window.location.hostname, document.title, window.location.href
Domain == <<"e">>
PageTitle == <<"P">>
PageUrl == <<"U">>

\* config.snippets: one snippet, a, whose template reference is itself a
\* placeholder: [template:{{domain}}]{{clipboard}}
SnippetContentA ==
    TemplateMarker \o <<"{", "{", "d", "o", "m", "a", "i", "n", "}", "}", "]">>
    \o <<"{", "{", "c", "l", "i", "p", "b", "o", "a", "r", "d", "}", "}">>
snippets == [k \in {<<"a">>} |-> [content |-> SnippetContentA]]

\* config.templates: one template, named like the page's domain
templates == [k \in {Domain} |-> [pre |-> <<"<">>, post |-> <<>>]]

\* the text a successful navigator.clipboard.readText() may deliver
ClipboardTexts == {<<>>, <<"c">>}
\* the text between the tags of the TEXTAREA ta when the page loads
Markups == {<<":", "b">>}
\* what the user types and pastes
TypedChars == {":", "a"}
PastedWords == {<<":">> \o FormTrigger, <<":", "a">>}

NoElement == "null"
NoNotice == "none"
\* no function is being applied on its own
NoCall == [fn |-> "none", done |-> TRUE]
NoRoundTrip ==
    [phase |-> "none", element |-> NoElement, before |-> <<>>,
     startPos |-> 0, endPos |-> 0, dispatched |-> {}]

VARIABLES
    dom,               \* element -> [value, textContent, caret]
    expansionHistory,  \* let expansionHistory = []
    isProcessing,      \* let isProcessing = false
    debounceTimer,     \* the element the pending debounce timer will scan
    inflight,          \* the suspended calls of expandSnippet
    modals,            \* the trigger elements of the open form modals
    lastEvent,         \* what the last handler did that the page can observe
    typed,             \* the number of characters the user has typed
    roundTrip,         \* the splice just made on a flat surface, and its undo
    attached,          \* the elements that are in the document
    pure               \* a function of the program applied on its own

vars == <<dom, expansionHistory, isProcessing, debounceTimer, inflight, modals,
          lastEvent, typed, roundTrip, attached, pure>>

IsFlat(e) == tagName[e] \in {"TEXTAREA", "INPUT"}

\* element.value || element.textContent || ''
ElementText(d, e) ==
    IF IsFlat(e) /\ d[e].value # <<>> THEN d[e].value ELSE d[e].textContent

\* element.selectionStart: the caret of a TEXTAREA, undefined on a DIV
selectionStart(d, e) == IF IsFlat(e) THEN d[e].caret ELSE Undefined

\* the text the user sees and edits in the element
ShownText(d, e) == IF IsFlat(e) THEN d[e].value ELSE d[e].textContent

isEditableElement(e) ==
    \/ tagName[e] = "TEXTAREA"
    \/ isContentEditable[e]

\* an element is processed iff no expansion is running and it is editable
\* and not excluded (config.excludedSelectors is empty)
shouldProcessElementIgnoringGuard(e, processing) ==
    /\ e # NoElement
    /\ isEditableElement(e)
    /\ ~InExcludedSubtree[e]

shouldProcessElement(e, processing) ==
    /\ e # NoElement
    /\ ~processing
    /\ isEditableElement(e)
    /\ ~InExcludedSubtree[e]

\* the text leaves of a contenteditable element, in document order: what
\* the user typed is one leaf
TextLeaves(d, e) == IF d[e].textContent = <<>> THEN <<>> ELSE <<d[e].textContent>>

\* findTextNode: the index of the first leaf whose cumulative end offset is
\* >= position, 0 for null
RECURSIVE FindLeafFrom(_, _, _, _)
FindLeafFrom(leaves, position, k, currentPos) ==
    IF k > Len(leaves) THEN 0
    ELSE IF GreaterEq(currentPos + Len(leaves[k]), position) THEN k
         ELSE FindLeafFrom(leaves, position, k + 1, currentPos + Len(leaves[k]))

\* a walk that passes a leaf whose end is exactly at the position
findTextNodePastBoundary(leaves, position) ==
    FindLeafFrom(leaves, Plus(position, 1), 1, 0)

findTextNode(leaves, position) == FindLeafFrom(leaves, position, 1, 0)

\* element.textContent of a region: its text leaves joined in document order
RECURSIVE PlainText(_)
PlainText(leaves) ==
    IF leaves = <<>> THEN <<>> ELSE Head(leaves) \o PlainText(Tail(leaves))

\* the contenteditable branch of replaceText on the text leaves of the
\* region: the leaf found for startPos takes both ends of the range, at the
\* offsets startPos and endPos themselves, and insertText replaces the range
insertTextInLeaves(leaves, startPos, endPos, newText) ==
    LET k == findTextNode(leaves, startPos)
    IN  IF k = 0
        THEN [leaves |-> leaves, caret |-> Undefined, input |-> FALSE,
              threw |-> FALSE]
        \* range.setStart / range.setEnd throw IndexSizeError past the end
        \* of the leaf
        ELSE IF startPos > Len(leaves[k]) \/ endPos > Len(leaves[k])
        THEN [leaves |-> leaves, caret |-> Undefined, input |-> FALSE,
              threw |-> TRUE]
        \* setEnd before the start collapses the range at the end
        ELSE LET hi  == ClampIndex(endPos, Len(leaves[k]))
                 lo  == Min2(ClampIndex(startPos, Len(leaves[k])), hi)
                 new == SubSeq(leaves[k], 1, lo) \o newText
                        \o SubSeq(leaves[k], hi + 1, Len(leaves[k]))
             IN  [leaves |-> [leaves EXCEPT ![k] = new],
                  caret  |-> Len(PlainText(SubSeq(leaves, 1, k - 1))) + lo
                             + Len(newText),
                  input  |-> TRUE,
                  threw  |-> FALSE]

\* a listener that leaves a pending timer alone
InputListenerKeepingFirst(timer, e, processing) ==
    IF shouldProcessElement(e, processing) /\ timer = NoElement THEN e ELSE timer

\* a listener that does not look at the guard
InputListenerIgnoringGuard(timer, e, processing) ==
    IF shouldProcessElement(e, FALSE) THEN e ELSE timer

\* the 'input' listener of setupTextExpansion: the timer it leaves pending
InputListener(timer, e, processing) ==
    IF shouldProcessElement(e, processing) THEN e ELSE timer

\* replaceText: the document after it, whether it dispatched 'input',
\* whether it threw
replaceTextKeepingCaret(d, e, startPos, endPos, newText) ==
    IF IsFlat(e)
    THEN LET text == d[e].value
             new  == Substring(text, 0, startPos) \o newText
                     \o SubstringFrom(text, endPos)
         IN  [dom   |-> [d EXCEPT ![e].value = new],
              input |-> TRUE,
              threw |-> FALSE,
              change |-> FALSE]
    ELSE [dom |-> d, input |-> FALSE, threw |-> FALSE, change |-> FALSE]

\* a splice that inserts at startPos and removes nothing
replaceTextInsertingOnly(d, e, startPos, endPos, newText) ==
    IF IsFlat(e)
    THEN LET text == d[e].value
             new  == Substring(text, 0, startPos) \o newText
                     \o SubstringFrom(text, startPos)
         IN  [dom   |-> [d EXCEPT ![e].value = new,
                                  ![e].caret = ClampIndex(Plus(startPos, Len(newText)),
                                                          Len(new))],
              input |-> TRUE,
              threw |-> FALSE,
              change |-> FALSE]
    ELSE [dom |-> d, input |-> FALSE, threw |-> FALSE, change |-> FALSE]

replaceText(d, e, startPos, endPos, newText) ==
    IF IsFlat(e)
    THEN LET text == d[e].value
             new  == Substring(text, 0, startPos) \o newText
                     \o SubstringFrom(text, endPos)
         IN  [dom   |-> [d EXCEPT ![e].value = new,
                                  ![e].caret = ClampIndex(Plus(startPos, Len(newText)),
                                                          Len(new))],
              input |-> TRUE,
              threw |-> FALSE,
              change |-> FALSE]
    ELSE IF isContentEditable[e]
    THEN LET r == insertTextInLeaves(TextLeaves(d, e), startPos, endPos, newText)
         IN  IF r.input
             THEN [dom   |-> [d EXCEPT ![e].textContent = PlainText(r.leaves),
                                       ![e].caret = r.caret],
                   input |-> TRUE,
                   threw |-> FALSE,
                   change |-> FALSE]
             ELSE [dom |-> d, input |-> FALSE, threw |-> r.threw, change |-> FALSE]
    ELSE [dom |-> d, input |-> FALSE, threw |-> FALSE, change |-> FALSE]

(***************************************************************************)
(* The handlers of the content script.                                     *)
(***************************************************************************)
Event(kind, target, handled, prevented, notice, sent) ==
    [kind |-> kind, target |-> target, handled |-> handled,
     prevented |-> prevented, notice |-> notice, sent |-> sent]

Message(type, key, domain) == [type |-> type, snippetKey |-> key, domain |-> domain]

\* the scan both handleTextInput and handleTriggerKey make
ScanAtCursor(d, e) ==
    LET cursorPos    == selectionStart(d, e)
        text         == ElementText(d, e)
        beforeCursor == Substring(text, 0, cursorPos)
    IN  triggerMatch(beforeCursor, triggerPrefix)

\* handleTriggerKey: whether it called preventDefault, the branch it took
\* and the arguments it passed on
handleTriggerKeyPreventingKnownOnly(d, e) ==
    LET cursorPos == selectionStart(d, e)
        m         == ScanAtCursor(d, e)
        branch    == IF ~m.matched THEN "none"
                     ELSE IF m.trigger = FormTrigger THEN "form"
                     ELSE IF m.trigger \in DOMAIN snippets THEN "expand"
                     ELSE "none"
    IN  [prevented |-> branch # "none",
         branch    |-> branch,
         trigger   |-> m.trigger,
         startPos  |-> Minus(cursorPos, m.length),
         endPos    |-> cursorPos]

handleTriggerKey(d, e) ==
    LET cursorPos == selectionStart(d, e)
        m         == ScanAtCursor(d, e)
    IN  [prevented |-> m.matched,
         branch    |-> IF ~m.matched THEN "none"
                       ELSE IF m.trigger = FormTrigger THEN "form"
                       ELSE IF m.trigger \in DOMAIN snippets THEN "expand"
                       ELSE "none",
         trigger   |-> m.trigger,
         startPos  |-> Minus(cursorPos, m.length),
         endPos    |-> cursorPos]

\* handleTextInput: the branch the debounced scan takes
handleTextInput(d, e) ==
    LET m == ScanAtCursor(d, e)
    IN  IF ~m.matched THEN "none"
        ELSE IF m.trigger = FormTrigger THEN "form"
        ELSE IF m.trigger \in DOMAIN snippets THEN "snippet"
        ELSE "none"

\* getExpansionContext before the clipboard read
AmbientContext ==
    [pageTitle |-> PageTitle, pageUrl |-> PageUrl, domain |-> Domain,
     selectedText |-> <<>>, formData |-> <<>>]

\* expandSnippet up to its first await: the suspended call
StartExpansion(e, trigger, startPos, endPos) ==
    [element |-> e, trigger |-> trigger, startPos |-> startPos,
     endPos |-> endPos, pc |-> "clipboard", clipboard |-> <<>>]

\* getExpansionContext after the clipboard read: a failed read gives the
\* empty string
WithClipboardUndefinedOnFailure(f, ok, text) ==
    [f EXCEPT !.pc = "resolve", !.clipboard = IF ok THEN text ELSE <<"u">>]

WithClipboard(f, ok, text) ==
    [f EXCEPT !.pc = "resolve", !.clipboard = IF ok THEN text ELSE <<>>]

\* the RESOLVE_VARIABLES message of the suspended call f
ResolveRequest(f) ==
    [text    |-> snippets[f.trigger].content,
     context |-> [pageTitle    |-> AmbientContext.pageTitle,
                  pageUrl      |-> AmbientContext.pageUrl,
                  domain       |-> AmbientContext.domain,
                  selectedText |-> AmbientContext.selectedText,
                  formData     |-> AmbientContext.formData,
                  clipboard    |-> f.clipboard]]

\* a record that keeps the text as it is after the splice
RecordOfSplicedText(f, originalText, content) ==
    [element |-> f.element,
     originalText |-> Substring(originalText, 0, f.startPos) \o content
                      \o SubstringFrom(originalText, f.endPos),
     trigger |-> f.trigger,
     startPos |-> f.startPos, endPos |-> f.endPos, expandedContent |-> content]

Record(f, originalText, content) ==
    [element |-> f.element, originalText |-> originalText, trigger |-> f.trigger,
     startPos |-> f.startPos, endPos |-> f.endPos, expandedContent |-> content]

\* a variant that splices first and reads originalText for the record
\* afterwards
expandSnippetResumeRecordingAfterSplice(d, h, timer, processing, f, response) ==
    LET content == applyTemplateWrapping(response.resolved, templates)
        rt      == replaceText(d, f.element, f.startPos, f.endPos, content)
        pushed  == Append(h, Record(f, ElementText(rt.dom, f.element), content))
    IN  [dom          |-> rt.dom,
         dispatched   |-> IF rt.input THEN {"input"} ELSE {},
         history      |-> pushed,
         timer        |-> IF rt.input
                          THEN InputListener(timer, f.element, processing)
                          ELSE timer,
         sent         |-> <<Message("TRACK_USAGE", f.trigger, Domain)>>,
         notice       |-> IF response.tokens > 100 THEN "tokens" ELSE NoNotice,
         isProcessing |-> FALSE]

\* expandSnippet from the response on, for a response that is truthy
expandSnippetResume(d, h, timer, processing, f, response) ==
    LET content      == applyTemplateWrapping(response.resolved, templates)
        originalText == ElementText(d, f.element)
        pushed       == Append(h, Record(f, originalText, content))
        rt           == replaceText(d, f.element, f.startPos, f.endPos, content)
    IN  IF rt.threw
        THEN [dom |-> rt.dom, history |-> pushed, timer |-> timer,
              sent |-> <<>>, notice |-> NoNotice, isProcessing |-> processing,
              dispatched |-> {}]
        ELSE [dom          |-> rt.dom,
              \* the events replaceText dispatched on the element
              dispatched   |-> (IF rt.input THEN {"input"} ELSE {})
                               \cup (IF rt.change THEN {"change"} ELSE {}),
              history      |-> pushed,
              timer        |-> IF rt.input
                               THEN InputListener(timer, f.element, processing)
                               ELSE timer,
              sent         |-> <<Message("TRACK_USAGE", f.trigger, Domain)>>,
              notice       |-> IF response.tokens > 100 THEN "tokens" ELSE NoNotice,
              isProcessing |-> FALSE]

\* variants of undoLastExpansion: one that takes the oldest record, one that
\* puts the caret at the record's startPos, one that reports success on an
\* empty history
undoOldestExpansion(h, d) ==
    IF Len(h) = 0
    THEN [history |-> h, dom |-> d, notice |-> "No expansions to undo"]
    ELSE LET last == h[1]
             e    == last.element
         IN  [history |-> SubSeq(h, 2, Len(h)),
              dom     |-> IF IsFlat(e)
                          THEN [d EXCEPT ![e].value = last.originalText,
                                         ![e].caret = ClampIndex(last.endPos,
                                                                 Len(last.originalText))]
                          ELSE IF isContentEditable[e]
                          THEN [d EXCEPT ![e].textContent = last.originalText]
                          ELSE d,
              notice  |-> "Undid expansion"]

undoLastExpansionCaretAtStart(h, d) ==
    IF Len(h) = 0
    THEN [history |-> h, dom |-> d, notice |-> "No expansions to undo"]
    ELSE LET last == h[Len(h)]
             e    == last.element
         IN  [history |-> SubSeq(h, 1, Len(h) - 1),
              dom     |-> IF IsFlat(e)
                          THEN [d EXCEPT ![e].value = last.originalText,
                                         ![e].caret = ClampIndex(last.startPos,
                                                                 Len(last.originalText))]
                          ELSE IF isContentEditable[e]
                          THEN [d EXCEPT ![e].textContent = last.originalText]
                          ELSE d,
              notice  |-> "Undid expansion"]

undoLastExpansionSilentWhenEmpty(h, d) ==
    IF Len(h) = 0
    THEN [history |-> h, dom |-> d, notice |-> NoNotice]
    ELSE LET last == h[Len(h)]
             e    == last.element
         IN  [history |-> SubSeq(h, 1, Len(h) - 1),
              dom     |-> IF IsFlat(e)
                          THEN [d EXCEPT ![e].value = last.originalText,
                                         ![e].caret = ClampIndex(last.endPos,
                                                                 Len(last.originalText))]
                          ELSE IF isContentEditable[e]
                          THEN [d EXCEPT ![e].textContent = last.originalText]
                          ELSE d,
              notice  |-> "Undid expansion"]

\* undoLastExpansion
undoLastExpansion(h, d) ==
    IF Len(h) = 0
    THEN [history |-> h, dom |-> d, notice |-> "No expansions to undo"]
    ELSE LET last == h[Len(h)]
             e    == last.element
         IN  [history |-> SubSeq(h, 1, Len(h) - 1),
              dom     |-> IF IsFlat(e)
                          THEN [d EXCEPT ![e].value = last.originalText,
                                         ![e].caret = ClampIndex(last.endPos,
                                                                 Len(last.originalText))]
                          ELSE IF isContentEditable[e]
                          THEN [d EXCEPT ![e].textContent = last.originalText]
                          ELSE d,
              notice  |-> "Undid expansion"]

(***************************************************************************)
(* The state machine.                                                      *)
(***************************************************************************)
\* the page and the content script right after the script has loaded
PageLoaded ==
    /\ \E m \in Markups :
          dom = [e \in Elements |->
                    CASE e = "ta" -> [value |-> m, textContent |-> m, caret |-> Len(m)]
                      [] e = "ce" -> [value |-> <<>>, textContent |-> <<":", "a">>,
                                      caret |-> 2]
                      [] OTHER    -> [value |-> <<":", "a">>, textContent |-> <<>>,
                                      caret |-> 2]]
    /\ expansionHistory = <<>>
    /\ isProcessing = FALSE
    /\ debounceTimer = NoElement
    /\ inflight = {}
    /\ modals = <<>>
    /\ lastEvent = Event("load", NoElement, FALSE, FALSE, NoNotice, <<>>)
    /\ typed = 0
    /\ roundTrip = NoRoundTrip
    /\ attached = Elements

Init ==
    /\ PageLoaded
    /\ pure = NoCall

\* the document after the user's edit of e to text new with the caret at c
Edited(d, e, new, c) ==
    IF IsFlat(e) THEN [d EXCEPT ![e].value = new, ![e].caret = c]
    ELSE [d EXCEPT ![e].textContent = new, ![e].caret = c]

\* the user's edit and the 'input' event it fires
UserEdit(e, new, c) ==
    /\ UNCHANGED <<attached, pure>>
    \* an element out of the document receives no event of the user
    /\ e \in attached
    /\ dom' = Edited(dom, e, new, c)
    /\ debounceTimer' = InputListener(debounceTimer, e, isProcessing)
    /\ lastEvent' = Event("edit", NoElement, FALSE, FALSE, NoNotice, <<>>)
    /\ roundTrip' = NoRoundTrip
    /\ UNCHANGED <<expansionHistory, isProcessing, inflight, modals>>

UserType(e, c) ==
    LET text == ShownText(dom, e)
        k    == dom[e].caret
    IN  /\ typed < MaxTyped
        /\ typed' = typed + 1
        /\ UserEdit(e, SubSeq(text, 1, k) \o <<c>> \o SubSeq(text, k + 1, Len(text)),
                    k + 1)

UserBackspace(e) ==
    LET text == ShownText(dom, e)
        k    == dom[e].caret
    IN  /\ k > 0
        /\ UNCHANGED typed
        /\ UserEdit(e, SubSeq(text, 1, k - 1) \o SubSeq(text, k + 1, Len(text)),
                    k - 1)

UserPaste(e, w) ==
    /\ ShownText(dom, e) = <<>>
    /\ UNCHANGED typed
    /\ UserEdit(e, w, Len(w))

\* the debounce timer fires: handleTextInput(e.target)
TimerFires ==
    /\ UNCHANGED <<attached, pure>>
    /\ roundTrip' = NoRoundTrip
    /\ UNCHANGED typed
    /\ debounceTimer # NoElement
    /\ LET branch == handleTextInput(dom, debounceTimer)
       IN  /\ branch = "form" => Len(modals) < MaxModals
           /\ modals' = IF branch = "form" THEN Append(modals, debounceTimer)
                        ELSE modals
           \* currentElement = element: assigned here and read nowhere, so
           \* it is reported as the outcome of the scan and not kept
           /\ lastEvent' = Event("scan", NoElement, TRUE, FALSE,
                                 IF branch = "snippet" THEN "currentElement"
                                 ELSE NoNotice, <<>>)
    /\ debounceTimer' = NoElement
    /\ UNCHANGED <<dom, expansionHistory, isProcessing, inflight>>

\* a keydown of space, Tab or Enter on element e
KeyDown(e) ==
    /\ UNCHANGED <<attached, pure>>
    \* an element out of the document receives no event of the user
    /\ e \in attached
    /\ roundTrip' = NoRoundTrip
    /\ UNCHANGED typed
    /\ Len(expansionHistory) + Cardinality(inflight) < MaxHist
    /\ IF ~shouldProcessElement(e, isProcessing)
       THEN /\ lastEvent' = Event("key", e, FALSE, FALSE, NoNotice, <<>>)
            /\ UNCHANGED <<dom, expansionHistory, isProcessing, debounceTimer,
                           inflight, modals>>
       ELSE LET r == handleTriggerKey(dom, e)
            IN  /\ lastEvent' = Event("key", e, TRUE, r.prevented, NoNotice, <<>>)
                /\ CASE r.branch = "expand" ->
                          /\ isProcessing' = TRUE
                          /\ inflight' = inflight \cup
                                {StartExpansion(e, r.trigger, r.startPos, r.endPos)}
                          /\ UNCHANGED <<dom, debounceTimer, modals>>
                     [] r.branch = "form" ->
                          LET rt == replaceText(dom, e, r.startPos, r.endPos, <<>>)
                          IN  /\ Len(modals) < MaxModals
                              /\ dom' = rt.dom
                              /\ debounceTimer' =
                                    IF rt.input
                                    THEN InputListener(debounceTimer, e, isProcessing)
                                    ELSE debounceTimer
                              /\ modals' = Append(modals, e)
                              /\ UNCHANGED <<isProcessing, inflight>>
                     [] OTHER ->
                          UNCHANGED <<dom, isProcessing, debounceTimer, inflight, modals>>
                /\ UNCHANGED expansionHistory

\* navigator.clipboard.readText() settles; the resolve request is sent
ClipboardSettles(f, ok, text) ==
    /\ UNCHANGED <<attached, pure>>
    /\ roundTrip' = NoRoundTrip
    /\ UNCHANGED typed
    /\ f.pc = "clipboard"
    /\ inflight' = (inflight \ {f}) \cup {WithClipboard(f, ok, text)}
    /\ lastEvent' = Event(IF ok THEN "clipboard" ELSE "clipboard-failed", f.element,
                          TRUE, FALSE, NoNotice,
                          <<Message("RESOLVE_VARIABLES", <<>>, <<>>)>>)
    /\ UNCHANGED <<dom, expansionHistory, isProcessing, debounceTimer, modals>>

\* the background script answers the resolve request
ResolveResponds(f) ==
    /\ UNCHANGED <<attached, pure>>
    /\ UNCHANGED typed
    /\ f.pc = "resolve"
    /\ LET r == expandSnippetResume(dom, expansionHistory, debounceTimer,
                                    isProcessing, f, ResolveResponse(ResolveRequest(f)))
       IN  /\ dom' = r.dom
           /\ expansionHistory' = r.history
           \* the 'input' event bubbles to the document's listener only
           \* from an element that is in the document
           /\ debounceTimer' = IF f.element \in attached THEN r.timer ELSE debounceTimer
           /\ isProcessing' = r.isProcessing
           /\ lastEvent' = Event("response", f.element, TRUE, FALSE, r.notice, r.sent)
           /\ roundTrip' = IF IsFlat(f.element)
                           THEN [phase |-> "spliced", element |-> f.element,
                                 before |-> dom[f.element].value,
                                 startPos |-> f.startPos, endPos |-> f.endPos,
                                 dispatched |-> r.dispatched]
                           ELSE NoRoundTrip
    /\ inflight' = inflight \ {f}
    /\ UNCHANGED modals

\* the resolve request settles with no response: if (response) is skipped
ResolveNoResponse(f) ==
    /\ UNCHANGED <<attached, pure>>
    /\ roundTrip' = NoRoundTrip
    /\ UNCHANGED typed
    /\ f.pc = "resolve"
    /\ isProcessing' = FALSE
    /\ inflight' = inflight \ {f}
    /\ lastEvent' = Event("no-response", f.element, TRUE, FALSE, NoNotice, <<>>)
    /\ UNCHANGED <<dom, expansionHistory, debounceTimer, modals>>

\* the resolve request rejects: the await throws out of expandSnippet
ResolveRejects(f) ==
    /\ UNCHANGED <<attached, pure>>
    /\ roundTrip' = NoRoundTrip
    /\ UNCHANGED typed
    /\ f.pc = "resolve"
    /\ inflight' = inflight \ {f}
    /\ lastEvent' = Event("rejected", f.element, TRUE, FALSE, NoNotice, <<>>)
    /\ UNCHANGED <<dom, expansionHistory, isProcessing, debounceTimer, modals>>

\* a keydown of Ctrl+Z on element e
UndoKey(e) ==
    /\ UNCHANGED <<attached, pure>>
    \* an element out of the document receives no event of the user
    /\ e \in attached
    /\ UNCHANGED typed
    /\ IF shouldProcessElement(e, isProcessing)
       THEN LET r == undoLastExpansion(expansionHistory, dom)
            IN  /\ expansionHistory' = r.history
                /\ dom' = r.dom
                /\ lastEvent' = Event("undo", e, TRUE, TRUE, r.notice, <<>>)
                /\ roundTrip' = IF roundTrip.phase = "spliced"
                                THEN [roundTrip EXCEPT !.phase = "undone"]
                                ELSE NoRoundTrip
       ELSE /\ lastEvent' = Event("undo", NoElement, FALSE, FALSE, NoNotice, <<>>)
            /\ roundTrip' = NoRoundTrip
            /\ UNCHANGED <<dom, expansionHistory>>
    /\ UNCHANGED <<isProcessing, debounceTimer, inflight, modals>>

\* Cancel, the close button or the backdrop of a form modal
CloseModal(i) ==
    /\ UNCHANGED <<attached, pure>>
    /\ roundTrip' = NoRoundTrip
    /\ UNCHANGED typed
    /\ i \in 1..Len(modals)
    /\ modals' = SubSeq(modals, 1, i - 1) \o SubSeq(modals, i + 1, Len(modals))
    /\ lastEvent' = Event("close", modals[i], TRUE, FALSE, NoNotice, <<>>)
    /\ UNCHANGED <<dom, expansionHistory, isProcessing, debounceTimer, inflight>>

Next ==
    \/ \E e \in TypedSurfaces, c \in TypedChars : UserType(e, c)
    \/ \E e \in UserSurfaces : UserBackspace(e)
    \/ TimerFires
    \/ \E e \in Elements : KeyDown(e)
    \/ \E f \in inflight, t \in ClipboardTexts : ClipboardSettles(f, TRUE, t)
    \/ \E f \in inflight : ClipboardSettles(f, FALSE, <<>>)
    \/ \E f \in inflight : ResolveResponds(f)
    \/ \E f \in inflight : ResolveNoResponse(f)
    \/ \E f \in inflight : ResolveRejects(f)
    \/ \E e \in Elements : UndoKey(e)

Spec == Init /\ [][Next]_vars

(***************************************************************************)
(* The page removes an element from the document: the suspended calls and  *)
(* the records that hold the element keep their reference to it.           *)
(***************************************************************************)
Detach(e) ==
    /\ e \in attached
    /\ attached' = attached \ {e}
    /\ lastEvent' = Event("detach", NoElement, FALSE, FALSE, NoNotice, <<>>)
    /\ roundTrip' = NoRoundTrip
    /\ UNCHANGED <<dom, expansionHistory, isProcessing, debounceTimer, inflight,
                   modals, typed, pure>>

DetachNext ==
    \/ Next
    \* of the elements the controller can hold a reference to
    \/ \E e \in Elements : shouldProcessElement(e, FALSE) /\ Detach(e)

DetachSpec == Init /\ [][DetachNext]_vars

(***************************************************************************)
(* Expansions and undos with no edit of the user in between: the text     *)
(* between the tags of the textarea ends with the trigger :a when the      *)
(* script loads, and the clipboard may hold the text :a, so that the       *)
(* expanded text ends with a trigger again.                                *)
(***************************************************************************)
RollbackMarkups == {<<":", "a">>, <<"x", ":", "a">>, <<":", ":", "a">>}

\* a flat element shows its markup text when the page loads
RollbackPage(m) ==
    [e \in Elements |->
        CASE e = "ta" -> [value |-> m, textContent |-> m, caret |-> Len(m)]
          [] e = "ce" -> [value |-> <<>>, textContent |-> <<":", "a">>, caret |-> 2]
          [] OTHER    -> [value |-> <<":", "a">>, textContent |-> <<":", "a">>,
                          caret |-> 2]]

RollbackClipboards == {<<>>, <<"c">>, <<":", "a">>}

\* the text the element showed when the page loaded
LoadedText(d, e) == d[e].textContent

RollbackInit ==
    /\ \E m \in RollbackMarkups : dom = RollbackPage(m)
    /\ expansionHistory = <<>>
    /\ isProcessing = FALSE
    /\ debounceTimer = NoElement
    /\ inflight = {}
    /\ modals = <<>>
    /\ lastEvent = Event("load", NoElement, FALSE, FALSE, NoNotice, <<>>)
    /\ typed = 0
    /\ roundTrip = NoRoundTrip
    /\ attached = Elements
    /\ pure = NoCall

RollbackNext ==
    \/ \E e \in Elements : IsFlat(e) /\ KeyDown(e)
    \/ \E f \in inflight, t \in RollbackClipboards : ClipboardSettles(f, TRUE, t)
    \/ \E f \in inflight : ClipboardSettles(f, FALSE, <<>>)
    \/ \E f \in inflight : ResolveResponds(f)
    \/ \E f \in inflight : ResolveNoResponse(f)
    \/ \E f \in inflight : ResolveRejects(f)
    \/ \E e \in Elements : UndoKey(e)

RollbackSpec == RollbackInit /\ [][RollbackNext]_vars

(***************************************************************************)
(* The user empties a surface and pastes a word that ends with a trigger,  *)
(* the form trigger among them, into the textarea or the contenteditable   *)
(* region, and closes the form modals; the background script answers every *)
(* resolve request without content (no snippet stored under the trigger).  *)
(***************************************************************************)
PasteSurfaces == {"ta", "ce"}

FormNext ==
    \/ \E e \in PasteSurfaces, w \in PastedWords : UserPaste(e, w)
    \/ \E e \in PasteSurfaces : UserBackspace(e)
    \/ TimerFires
    \/ \E e \in Elements : KeyDown(e)
    \/ \E f \in inflight : ClipboardSettles(f, FALSE, <<>>)
    \/ \E f \in inflight : ResolveNoResponse(f)
    \/ \E i \in 1..Len(modals) : CloseModal(i)

FormSpec == Init /\ [][FormNext]_vars

(***************************************************************************)
(* The functions of the program applied on their own, to inputs drawn from *)
(* bounded sets.                                                           *)
(***************************************************************************)
\* a text of the resolver is made of at most this many pieces
MaxTokens == 2

Placeholder(key) == <<"{", "{">> \o key \o <<"}", "}">>
ClipboardKey == <<"c", "l", "i", "p", "b", "o", "a", "r", "d">>
DateKey == <<"d", "a", "t", "e">>

\* the pieces: placeholders of a form key, of no key, of an ambient key,
\* and text that is no placeholder
ResolverTokens ==
    {Placeholder(<<"a">>), Placeholder(<<"y">>), Placeholder(ClipboardKey),
     Placeholder(DateKey),
     <<"x">>, <<"{">>, <<"{", "{">>, <<"}", "}">>}

RECURSIVE TokenTexts(_)
TokenTexts(n) ==
    IF n = 0 THEN {<<>>}
    ELSE TokenTexts(n - 1)
         \cup {t \o k : t \in TokenTexts(n - 1), k \in ResolverTokens}

ResolverTexts == TokenTexts(MaxTokens)

FormKeys == {<<"a">>, <<".">>, ClipboardKey, DateKey}
FormValues ==
    {<<>>, <<"v">>, Placeholder(<<"a">>), <<"x">> \o Placeholder(<<"a">>),
     Placeholder(<<"y">>) \o <<"x">>, <<"$", "&">>}
Field(k, v) == [key |-> k, value |-> v]

\* context.formData: no field, one field, or a chain of two fields in
\* either order
FormDatas ==
    {<<>>}
    \cup {<<Field(k, v)>> : k \in FormKeys, v \in FormValues}
    \cup {<<Field(<<"a">>, Placeholder(<<"b">>)), Field(<<"b">>, <<"v">>)>>,
          <<Field(<<"b">>, <<"v">>), Field(<<"a">>, Placeholder(<<"b">>))>>}

\* context.clipboard
ResolverClipboards == {<<>>, <<"c">>, <<"$", "$">>}

ResolverContext(formData, clipboard) ==
    [pageTitle |-> PageTitle, pageUrl |-> PageUrl, domain |-> Domain,
     selectedText |-> <<>>, formData |-> formData, clipboard |-> clipboard]

ResolveCalls ==
    {[fn |-> "resolve", done |-> FALSE, text |-> t,
      context |-> ResolverContext(fd, cb), out |-> <<>>] :
        t \in ResolverTexts, fd \in FormDatas, cb \in ResolverClipboards}

\* the background script handles one RESOLVE_VARIABLES message
ApplyResolve ==
    /\ pure.fn = "resolve"
    /\ ~pure.done
    /\ pure' = [pure EXCEPT !.done = TRUE,
                            !.out = ResolveResponse([text |-> pure.text,
                                                     context |-> pure.context]).resolved]
    /\ UNCHANGED <<dom, expansionHistory, isProcessing, debounceTimer, inflight,
                   modals, lastEvent, typed, roundTrip, attached>>

\* a text of the scanner, and a buffer of the splice, has at most this many
\* characters
MaxScanLen == 3

ScanChars == {":", "s", "S", "1", "_", "-", " "}

RECURSIVE CharTexts(_, _)
CharTexts(chars, n) ==
    IF n = 0 THEN {<<>>}
    ELSE CharTexts(chars, n - 1)
         \cup {Append(t, c) : t \in CharTexts(chars, n - 1), c \in chars}

HelloSn == <<"h", "e", "l", "l", "o", " ", ":", "s", "n">>
HelloColon == <<"h", "e", "l", "l", "o", " ", ":", " ">>

ScanTexts == CharTexts(ScanChars, MaxScanLen) \cup {HelloSn, HelloColon}

\* config.triggerPrefix: the default, and a prefix that is itself a
\* trigger character
ScanPrefixes == {triggerPrefix, "-"}

ScanCalls ==
    {[fn |-> "scan", done |-> FALSE, text |-> t, cursor |-> c, prefix |-> p,
      out |-> NoMatch] :
        t \in ScanTexts, c \in 0..(MaxScanLen + 6), p \in ScanPrefixes}

\* a page whose TEXTAREA ta holds the text with the caret at cursor
PageWith(text, cursor) ==
    [e \in Elements |-> [value |-> text, textContent |-> <<>>, caret |-> cursor]]

\* the scan of handleTriggerKey and handleTextInput on a flat element
ApplyScan ==
    /\ pure.fn = "scan"
    /\ ~pure.done
    /\ pure.cursor <= Len(pure.text)
    /\ LET m == triggerMatch(Substring(pure.text, 0, pure.cursor), pure.prefix)
       IN  pure' = [pure EXCEPT
                       !.done = TRUE,
                       !.out = [matched  |-> m.matched,
                                trigger  |-> m.trigger,
                                startPos |-> Minus(pure.cursor, m.length),
                                endPos   |-> pure.cursor,
                                key      |-> handleTriggerKey(
                                                PageWith(pure.text, pure.cursor),
                                                "ta"),
                                input    |-> handleTextInput(
                                                PageWith(pure.text, pure.cursor),
                                                "ta")]]
    /\ UNCHANGED <<dom, expansionHistory, isProcessing, debounceTimer, inflight,
                   modals, lastEvent, typed, roundTrip, attached>>

SpliceChars == {"a", "b"}
SpliceTexts == {<<>>, <<"X">>, <<"X", "Y">>}

\* replaceText(element, startPos, endPos, newText) on a buffer, for every
\* range 0 <= startPos <= endPos <= length
SpliceCalls ==
    {[fn |-> "splice", done |-> FALSE, text |-> t, startPos |-> a, endPos |-> b,
      newText |-> n, out |-> [value |-> t, caret |-> 0, input |-> FALSE,
                              threw |-> FALSE]] :
        t \in CharTexts(SpliceChars, MaxScanLen), a \in 0..MaxScanLen,
        b \in 0..MaxScanLen, n \in SpliceTexts}

ApplySplice ==
    /\ pure.fn = "splice"
    /\ ~pure.done
    /\ LET r == replaceText(PageWith(pure.text, 0), "ta", pure.startPos, pure.endPos,
                            pure.newText)
       IN  pure' = [pure EXCEPT !.done = TRUE,
                               !.out = [value |-> r.dom["ta"].value,
                                        caret |-> r.dom["ta"].caret,
                                        input |-> r.input,
                                        threw |-> r.threw]]
    /\ UNCHANGED <<dom, expansionHistory, isProcessing, debounceTimer, inflight,
                   modals, lastEvent, typed, roundTrip, attached>>

\* the most fields of a form
MaxFields == 2

\* the labels and the trimmed values of the fields
FormLabels ==
    {<<"A">>, <<"a">>, <<"b">>, <<"1">>, <<"a", " ", "b">>, <<"a", "_", "b">>,
     <<"A", " ", " ", "b">>}
FieldValues == {<<>>, <<"v">>, <<"w">>}

RECURSIVE FieldLists(_)
FieldLists(n) ==
    IF n = 0 THEN {<<>>}
    ELSE LET shorter == FieldLists(n - 1)
         IN  shorter \cup {Append(l, [label |-> b, value |-> v]) :
                              l \in {x \in shorter : Len(x) = n - 1},
                              b \in FormLabels, v \in FieldValues}

\* a click on Generate with the given fields
FormCalls ==
    {[fn |-> "form", done |-> FALSE, fields |-> l,
      out |-> [valid |-> FALSE, output |-> <<>>]] : l \in FieldLists(MaxFields)}

ApplyForm ==
    /\ pure.fn = "form"
    /\ ~pure.done
    /\ pure' = [pure EXCEPT !.done = TRUE, !.out = generateForm(pure.fields)]
    /\ UNCHANGED <<dom, expansionHistory, isProcessing, debounceTimer, inflight,
                   modals, lastEvent, typed, roundTrip, attached>>

\* the longest snippet content of the token estimate
MaxResolvedLen == 404

\* a snippet content of n characters without placeholders
PlainContent(n) == [i \in 1..n |-> "x"]

\* a RESOLVE_VARIABLES request for a snippet content of the given length,
\* and expandSnippet from its response on, for the trigger :a in a textarea
TokenCalls ==
    {[fn |-> "tokens", done |-> FALSE, length |-> n,
      out |-> [tokens |-> 0, notice |-> NoNotice, value |-> <<":", "a">>,
               records |-> 0, isProcessing |-> TRUE]] :
        n \in 0..MaxResolvedLen}

ApplyTokens ==
    /\ pure.fn = "tokens"
    /\ ~pure.done
    /\ LET response == ResolveResponse([text    |-> PlainContent(pure.length),
                                        context |-> ResolverContext(<<>>, <<>>)])
           f        == WithClipboard(StartExpansion("ta", <<"a">>, 0, 2), FALSE, <<>>)
           r        == expandSnippetResume(PageWith(<<":", "a">>, 2), <<>>, NoElement,
                                           TRUE, f, response)
       IN  pure' = [pure EXCEPT !.done = TRUE,
                               !.out = [tokens       |-> response.tokens,
                                        notice       |-> r.notice,
                                        value        |-> r.dom["ta"].value,
                                        records      |-> Len(r.history),
                                        isProcessing |-> r.isProcessing]]
    /\ UNCHANGED <<dom, expansionHistory, isProcessing, debounceTimer, inflight,
                   modals, lastEvent, typed, roundTrip, attached>>

\* the most text leaves a region holds
MaxLeaves == 3

\* the text of a leaf: an empty text node, one character, two characters
LeafTexts == {<<>>, <<"a">>, <<"a", "b">>}

RECURSIVE LeafSeqs(_)
LeafSeqs(n) ==
    IF n = 0 THEN {<<>>}
    ELSE LET shorter == LeafSeqs(n - 1)
         IN  shorter \cup {Append(l, t) : l \in {x \in shorter : Len(x) = n - 1},
                                           t \in LeafTexts}

\* the positions in and just past the longest plain text
LeafPositions == 0..(2 * MaxLeaves + 1)

\* findTextNode(element, position) on the text leaves of a region
FindCalls ==
    {[fn |-> "find", done |-> FALSE, leaves |-> l, position |-> p, out |-> 0] :
        l \in LeafSeqs(MaxLeaves), p \in LeafPositions}

ApplyFind ==
    /\ pure.fn = "find"
    /\ ~pure.done
    /\ pure' = [pure EXCEPT !.done = TRUE,
                            !.out = findTextNode(pure.leaves, pure.position)]
    /\ UNCHANGED <<dom, expansionHistory, isProcessing, debounceTimer, inflight,
                   modals, lastEvent, typed, roundTrip, attached>>

LeafInserts == {<<>>, <<"X">>}

\* replaceText(element, startPos, endPos, newText) on a contenteditable
\* region with the given text leaves
LeafSpliceCalls ==
    {[fn |-> "leafsplice", done |-> FALSE, leaves |-> l, startPos |-> a,
      endPos |-> b, newText |-> n,
      out |-> [leaves |-> l, threw |-> FALSE, input |-> FALSE]] :
        l \in LeafSeqs(MaxLeaves), a \in LeafPositions, b \in LeafPositions,
        n \in LeafInserts}

ApplyLeafSplice ==
    /\ pure.fn = "leafsplice"
    /\ ~pure.done
    /\ LET r == insertTextInLeaves(pure.leaves, pure.startPos, pure.endPos,
                                   pure.newText)
       IN  pure' = [pure EXCEPT !.done = TRUE,
                               !.out = [leaves |-> r.leaves, threw |-> r.threw,
                                        input |-> r.input]]
    /\ UNCHANGED <<dom, expansionHistory, isProcessing, debounceTimer, inflight,
                   modals, lastEvent, typed, roundTrip, attached>>

\* the parts a snippet's resolved content is put together from: text before
\* the marker, the marker's opening, the name, the closing bracket, the rest
WrapLeads == {<<>>, <<"x">>}
WrapOpenings == {TemplateMarker, <<"[", "t", ":">>}
WrapNames == {<<>>, <<"e">>, <<"z">>, <<"e", "_", "1">>, <<"e", "-">>}
WrapClosings == {<<"]">>, <<>>}
WrapRests == {<<>>, <<"r">>, <<"r", "\n", "q">>, <<"[", "]">>}

\* config.templates: empty, or the templates e and e_1
WrapTemplates ==
    {<<>>,
     [k \in {<<"e">>, <<"e", "_", "1">>} |->
        IF k = <<"e">> THEN [pre |-> <<"<">>, post |-> <<">">>]
        ELSE [pre |-> <<>>, post |-> <<"!", "!">>]]}

\* applyTemplateWrapping(content, context)
WrapCalls ==
    {[fn |-> "wrap", done |-> FALSE, lead |-> l, opening |-> o, name |-> n,
      closing |-> c, rest |-> r, templates |-> t, out |-> <<>>] :
        l \in WrapLeads, o \in WrapOpenings, n \in WrapNames, c \in WrapClosings,
        r \in WrapRests, t \in WrapTemplates}

WrapContent(call) ==
    call.lead \o call.opening \o call.name \o call.closing \o call.rest

ApplyWrap ==
    /\ pure.fn = "wrap"
    /\ ~pure.done
    /\ pure' = [pure EXCEPT !.done = TRUE,
                            !.out = applyTemplateWrapping(WrapContent(pure),
                                                          pure.templates)]
    /\ UNCHANGED <<dom, expansionHistory, isProcessing, debounceTimer, inflight,
                   modals, lastEvent, typed, roundTrip, attached>>

PureInit ==
    /\ PageLoaded
    /\ \/ pure \in ResolveCalls
       \/ pure \in {c \in ScanCalls : c.cursor <= Len(c.text)}
       \/ pure \in {c \in SpliceCalls :
                       c.startPos <= c.endPos /\ c.endPos <= Len(c.text)}
       \/ pure \in FindCalls
       \/ pure \in FormCalls
       \/ pure \in TokenCalls
       \/ pure \in WrapCalls
       \/ pure \in {c \in LeafSpliceCalls :
                       c.startPos <= c.endPos
                       /\ c.endPos <= Len(PlainText(c.leaves))}

PureNext ==
    \/ ApplyResolve
    \/ ApplyScan
    \/ ApplySplice
    \/ ApplyFind
    \/ ApplyForm
    \/ ApplyTokens
    \/ ApplyWrap
    \/ ApplyLeafSplice

PureSpec == PureInit /\ [][PureNext]_vars

(***************************************************************************)
(* The usage counter of the background script: TRACK_USAGE messages of     *)
(* one snippet key on one day, the reads of chrome.storage.sync they       *)
(* request and the callbacks that write the counter back.                  *)
(***************************************************************************)
\* the most TRACK_USAGE messages the pages send
MaxMessages == 3

\* window.location.hostname of the reporting pages
UsageDomains == {Domain, <<"f">>}

\* usage[today][snippetKey] in the store: absent, or a count and an Array
NoEntry == [present |-> FALSE, count |-> 0, domains |-> <<>>]

\* the callback of trackUsage on the result of the read: what it passes
\* to chrome.storage.sync.set, if it gets there
trackUsageCallback(result, domain) ==
    IF ~result.analyticsEnabled
    THEN [set |-> FALSE, threw |-> FALSE, entry |-> result.entry]
    ELSE LET \* usage[today][snippetKey], created with a Set if absent; the
             \* domains read from the store are the Array written there
             entry   == IF result.entry.present
                        THEN [count   |-> result.entry.count,
                              domains |-> [kind  |-> "Array",
                                           items |-> result.entry.domains]]
                        ELSE [count   |-> 0,
                              domains |-> [kind |-> "Set", items |-> <<>>]]
             count   == entry.count + 1
             items   == entry.domains.items
             present == \E i \in 1..Len(items) : items[i] = domain
         IN  \* domains.add(domain): an Array has no method add
             IF entry.domains.kind # "Set"
             THEN [set |-> FALSE, threw |-> TRUE, entry |-> result.entry]
             ELSE [set   |-> TRUE, threw |-> FALSE,
                   entry |-> [present |-> TRUE, count |-> count,
                              \* Array.from(domains)
                              domains |-> IF present THEN items
                                          ELSE Append(items, domain)]]

\* the store after onInstalled, the analytics switch as the user has set it
UsageInit ==
    /\ PageLoaded
    /\ \E enabled \in BOOLEAN :
          pure = [fn |-> "usage", done |-> FALSE, analyticsEnabled |-> enabled,
                  entry |-> NoEntry, pending |-> {}, delivered |-> <<>>]

\* onMessage, case TRACK_USAGE: trackUsage requests the read
TrackUsageMessage(domain) ==
    /\ pure.fn = "usage"
    /\ Len(pure.delivered) < MaxMessages
    /\ pure' = [pure EXCEPT
                  !.delivered = Append(@, domain),
                  !.pending = @ \cup {[id |-> Len(pure.delivered) + 1,
                                       domain |-> domain, pc |-> "get",
                                       result |-> [analyticsEnabled |-> FALSE,
                                                   entry |-> NoEntry]]}]
    /\ UNCHANGED <<dom, expansionHistory, isProcessing, debounceTimer, inflight,
                   modals, lastEvent, typed, roundTrip, attached>>

\* chrome.storage.sync.get reads the two keys
StorageGet(p) ==
    /\ pure.fn = "usage"
    /\ p.pc = "get"
    /\ pure' = [pure EXCEPT
                  !.pending = (@ \ {p}) \cup
                     {[p EXCEPT !.pc = "callback",
                                !.result = [analyticsEnabled |-> pure.analyticsEnabled,
                                            entry |-> pure.entry]]}]
    /\ UNCHANGED <<dom, expansionHistory, isProcessing, debounceTimer, inflight,
                   modals, lastEvent, typed, roundTrip, attached>>

\* the callback runs on what was read and chrome.storage.sync.set writes
StorageCallback(p) ==
    /\ pure.fn = "usage"
    /\ p.pc = "callback"
    /\ LET r == trackUsageCallback(p.result, p.domain)
       IN  pure' = [pure EXCEPT !.pending = @ \ {p},
                                !.entry = IF r.set THEN r.entry ELSE @]
    /\ UNCHANGED <<dom, expansionHistory, isProcessing, debounceTimer, inflight,
                   modals, lastEvent, typed, roundTrip, attached>>

UsageNext ==
    \/ \E d \in UsageDomains : TrackUsageMessage(d)
    \/ \E p \in pure.pending : StorageGet(p)
    \/ \E p \in pure.pending : StorageCallback(p)

UsageSpec == UsageInit /\ [][UsageNext]_vars

(***************************************************************************)
(* Properties.                                                             *)
(***************************************************************************)
\* the part of the state a handler of the content script can change
Controller == <<dom, expansionHistory, isProcessing, debounceTimer, inflight, modals>>

\* C1: while an expansion is in flight, a space/Tab/Enter keydown on any
\* surface is dropped: it is not handled, starts no expansion and changes
\* nothing that could replay it later; at most one expansion is in flight
C1_ReentrancyGuard ==
    [][ /\ Cardinality(inflight') <= 1
        /\ (inflight # {} /\ lastEvent'.kind = "key")
              => /\ ~lastEvent'.handled
                 /\ ~lastEvent'.prevented
                 /\ UNCHANGED Controller ]_vars

\* a commit key on an eligible surface other than the one being expanded
\* has just been dropped
C1_Witness ==
    /\ lastEvent.kind = "key"
    /\ ~lastEvent.handled
    /\ shouldProcessElement(lastEvent.target, FALSE)
    /\ \E f \in inflight : f.element # lastEvent.target

\* C2: every expansion attempt that set isProcessing ends with isProcessing
\* false, whichever way it ends: when no attempt is in flight the guard is
\* clear
C2_GuardReleased == inflight = {} => ~isProcessing

\* C3: a handled undo pops the most recent record of the one history and
\* restores the surface stored in that record, whichever surface received
\* the key; no other surface changes
C3_UndoLIFO ==
    [][ (lastEvent'.kind = "undo" /\ lastEvent'.handled /\ expansionHistory # <<>>)
          => LET n    == Len(expansionHistory)
                 last == expansionHistory[n]
             IN  /\ expansionHistory' = SubSeq(expansionHistory, 1, n - 1)
                 /\ ShownText(dom', last.element) = last.originalText
                 /\ \A e \in Elements \ {last.element} : dom'[e] = dom[e] ]_vars

\* of two expansions on different surfaces the later one has been undone by
\* an undo key pressed on the other surface
C3_Witness ==
    /\ roundTrip.phase = "undone"
    /\ lastEvent.target # roundTrip.element
    /\ Len(expansionHistory) = 1
    /\ expansionHistory[1].element # roundTrip.element

\* C4: on a flat surface, a splice of [start,end) with
\* 0 <= start <= end <= length of the buffer, undone immediately, leaves the
\* buffer as it was before the splice and the cursor at the record's endPos
C4_SpliceRoundTrip ==
    (/\ roundTrip.phase = "undone"
     /\ 0 <= roundTrip.startPos
     /\ roundTrip.startPos <= roundTrip.endPos
     /\ roundTrip.endPos <= Len(roundTrip.before))
      => /\ dom[roundTrip.element].value = roundTrip.before
         /\ dom[roundTrip.element].caret = roundTrip.endPos

\* a splice of a non-empty range that does not start at 0 has been undone
\* by an undo key on the same surface
C4_Witness ==
    /\ roundTrip.phase = "undone"
    /\ lastEvent.target = roundTrip.element
    /\ 0 < roundTrip.startPos
    /\ roundTrip.startPos < roundTrip.endPos
    /\ roundTrip.endPos <= Len(roundTrip.before)

\* C5: a handled undo on an empty history changes no surface, leaves the
\* history empty and reports that there is nothing to undo
C5_UndoEmpty ==
    [][ (lastEvent'.kind = "undo" /\ lastEvent'.handled /\ expansionHistory = <<>>)
          => /\ dom' = dom
             /\ expansionHistory' = <<>>
             /\ lastEvent'.notice = "No expansions to undo" ]_vars

\* an undo on an empty history has reported after the user typed
C5_Witness ==
    /\ lastEvent.kind = "undo"
    /\ lastEvent.handled
    /\ lastEvent.notice = "No expansions to undo"
    /\ expansionHistory = <<>>
    /\ typed > 0

\* C6: every record of a flat surface in the history satisfies
\* 0 <= startPos <= endPos <= length(originalText)
C6_RecordInvariant ==
    \A i \in 1..Len(expansionHistory) :
        LET r == expansionHistory[i]
        IN  IsFlat(r.element)
              => /\ 0 <= r.startPos
                 /\ r.startPos <= r.endPos
                 /\ r.endPos <= Len(r.originalText)

\* the suspended call that a step completes
Completed == CHOOSE f \in inflight : f \notin inflight'

\* C7: when the response arrives for a commit on a flat surface whose text
\* T still has the committed trigger at [start,end) before the cursor, T
\* becomes T[0:start] + wrap(resolve(content, context)) + T[end:], the
\* cursor is right after the inserted content, and one record is pushed
\* with that trigger, start, end and originalText = T
C7_EndToEnd ==
    [][ (/\ lastEvent'.kind = "response"
         /\ inflight # inflight'
         /\ IsFlat(Completed.element)
         /\ LET k == handleTriggerKey(dom, Completed.element)
            IN  /\ k.branch = "expand"
                /\ k.trigger = Completed.trigger
                /\ k.startPos = Completed.startPos
                /\ k.endPos = Completed.endPos)
          => LET f       == Completed
                 e       == f.element
                 T       == dom[e].value
                 context == AmbientContext @@ [clipboard |-> f.clipboard]
                 content == applyTemplateWrapping(
                               resolveVariables(snippets[f.trigger].content, context),
                               templates)
                 n       == Len(expansionHistory)
             IN  /\ dom'[e].value = SubSeq(T, 1, f.startPos) \o content
                                    \o SubSeq(T, f.endPos + 1, Len(T))
                 /\ dom'[e].caret = f.startPos + Len(content)
                 /\ Len(expansionHistory') = n + 1
                 /\ SubSeq(expansionHistory', 1, n) = expansionHistory
                 /\ expansionHistory'[n + 1].element = e
                 /\ expansionHistory'[n + 1].trigger = f.trigger
                 /\ expansionHistory'[n + 1].startPos = f.startPos
                 /\ expansionHistory'[n + 1].endPos = f.endPos
                 /\ expansionHistory'[n + 1].originalText = T ]_vars

\* the text ::a, committed with the clipboard holding c, has become :<c
\* with the cursor at its end and a record of the trigger a at [1,3)
C7_Witness ==
    /\ lastEvent.kind = "response"
    /\ roundTrip.phase = "spliced"
    /\ roundTrip.before = <<":", ":", "a">>
    /\ dom[roundTrip.element].value = <<":", "<", "c">>
    /\ dom[roundTrip.element].caret = 3
    /\ expansionHistory # <<>>
    /\ LET r == expansionHistory[Len(expansionHistory)]
       IN  /\ r.trigger = <<"a">>
           /\ r.startPos = 1
           /\ r.endPos = 3
           /\ r.originalText = <<":", ":", "a">>

\* C8: a handled commit key whose text before the cursor matches the
\* trigger syntax with a name that is neither a snippet nor the form trigger
\* changes nothing, sends nothing and does not call preventDefault
C8_UnknownTrigger ==
    [][ (/\ lastEvent'.kind = "key"
         /\ lastEvent'.handled
         /\ LET m == ScanAtCursor(dom, lastEvent'.target)
            IN  /\ m.matched
                /\ m.trigger \notin DOMAIN snippets
                /\ m.trigger # FormTrigger)
          => /\ UNCHANGED Controller
             /\ lastEvent'.sent = <<>>
             /\ ~lastEvent'.prevented ]_vars

C10_ResolutionFailure ==
    [][ lastEvent'.kind \in {"no-response", "rejected"}
          => /\ dom' = dom
             /\ expansionHistory' = expansionHistory
             /\ lastEvent'.sent = <<>>
             /\ ~isProcessing' ]_vars

\* C11: a splice or an undo that addresses a flat element no longer in the
\* document fails: the element's text is not written, no success is
\* reported (no usage message, no undo notice) and the guard is clear
C11_DetachedSurface ==
    [][ \A e \in Elements \ attached :
          (\/ lastEvent'.kind = "response" /\ lastEvent'.target = e /\ IsFlat(e)
           \/ /\ lastEvent'.kind = "undo"
              /\ lastEvent'.handled
              /\ expansionHistory # <<>>
              /\ expansionHistory[Len(expansionHistory)].element = e
              /\ IsFlat(e))
            => /\ dom'[e] = dom[e]
               /\ lastEvent'.sent = <<>>
               /\ lastEvent'.notice # "Undid expansion"
               /\ ~isProcessing' ]_vars

\* C12: after a failed clipboard read the expansion is still in flight, at
\* its resolve request, with the clipboard of its context the empty string:
\* the suspended call is the one a successful read of the empty string
\* leaves
C12_ClipboardDegradation ==
    lastEvent.kind = "clipboard-failed"
      => /\ isProcessing
         /\ \E f \in inflight :
               /\ f.element = lastEvent.target
               /\ f.pc = "resolve"
               /\ f.clipboard = <<>>
               /\ ResolveRequest(f).context.clipboard = <<>>
               /\ f = WithClipboard([f EXCEPT !.pc = "clipboard"], TRUE, <<>>)

\* the clipboard read of an expansion on a flat surface has just failed
C12_Witness ==
    /\ lastEvent.kind = "clipboard-failed"
    /\ \E f \in inflight : IsFlat(f.element) /\ f.pc = "resolve"

\* the text, and the text after 1, 2, ..., n substitution passes
RECURSIVE Iterates(_, _, _)
Iterates(text, table, n) ==
    IF n = 0 THEN <<text>>
    ELSE LET before == Iterates(text, table, n - 1)
         IN  Append(before, ReplacePass(before[n], table, 1))

TenX == <<"x", "x", "x", "x", "x", "x", "x", "x", "x", "x">>

\* C13: resolveVariables returns the text after n <= 10 substitution
\* passes, every one of which changed the text, and n < 10 only if a further
\* pass would change nothing; {{a}} with a -> {{a}} comes back unchanged, and
\* {{a}} with a -> x{{a}} comes back as ten x followed by {{a}}
C13_ResolverCutOff ==
    (pure.fn = "resolve" /\ pure.done)
      => LET it == Iterates(pure.text, VariableTable(pure.context), maxIterations)
             a  == <<"a">>
         IN  /\ \E n \in 0..maxIterations :
                   /\ pure.out = it[n + 1]
                   /\ \A m \in 1..n : it[m + 1] # it[m]
                   /\ n < maxIterations => it[n + 2] = it[n + 1]
             /\ (/\ pure.text = Placeholder(a)
                 /\ pure.context.formData = <<Field(a, Placeholder(a))>>)
                  => pure.out = Placeholder(a)
             /\ (/\ pure.text = Placeholder(a)
                 /\ pure.context.formData = <<Field(a, <<"x">> \o Placeholder(a))>>)
                  => pure.out = TenX \o Placeholder(a)

\* the never-stabilising table has been cut off after ten passes
C13_Witness ==
    /\ pure.fn = "resolve"
    /\ pure.done
    /\ pure.text = Placeholder(<<"a">>)
    /\ pure.context.formData = <<Field(<<"a">>, <<"x">> \o Placeholder(<<"a">>))>>
    /\ pure.out = TenX \o Placeholder(<<"a">>)

\* the text holds the placeholder of a key of the variable table
HoldsKnownPlaceholder(text, table) ==
    \E i \in 1..Len(table) : Includes(text, Placeholder(table[i].key))

\* C14: when the result of resolveVariables holds no placeholder of a key
\* of the variable table, resolving the result again in the same context
\* returns it unchanged
C14_ResolverIdempotent ==
    (/\ pure.fn = "resolve"
     /\ pure.done
     /\ ~HoldsKnownPlaceholder(pure.out, VariableTable(pure.context)))
      => resolveVariables(pure.out, pure.context) = pure.out

\* C15: a text that holds no {{ is returned as it is, in every context
C15_ResolverIdentity ==
    (pure.fn = "resolve" /\ pure.done /\ ~Includes(pure.text, OpenBraces))
      => pure.out = pure.text

\* a text with closing braces but no {{ has been resolved in a context
\* with a form field
C15_Witness ==
    /\ pure.fn = "resolve"
    /\ pure.done
    /\ ~Includes(pure.text, OpenBraces)
    /\ Includes(pure.text, <<"}", "}">>)
    /\ pure.context.formData # <<>>
    /\ pure.out = pure.text

\* the places where part occurs in text
Occurrences(text, part) ==
    {i \in 1..(Len(text) - Len(part) + 1) : SubSeq(text, i, i + Len(part) - 1) = part}

TableKeys(table) == {table[i].key : i \in 1..Len(table)}

\* C16: the placeholder {{y}} of a key that is not in the variable table
\* is left as written, as often as the text holds it; the placeholder of a
\* key that is in the table with an empty value is not left in the result,
\* and alone it resolves to the empty string
C16_UnknownVersusEmpty ==
    (pure.fn = "resolve" /\ pure.done)
      => LET table == VariableTable(pure.context)
             y     == Placeholder(<<"y">>)
         IN  /\ <<"y">> \notin TableKeys(table)
                  => Cardinality(Occurrences(pure.out, y))
                       >= Cardinality(Occurrences(pure.text, y))
             /\ \A i \in 1..Len(table) :
                   table[i].value = <<>>
                     => /\ ~Includes(pure.out, Placeholder(table[i].key))
                        /\ pure.text = Placeholder(table[i].key) => pure.out = <<>>

\* the keys of the form data are free of regular-expression metacharacters
PlainFormKeys ==
    \A i \in 1..Len(pure.context.formData) :
        \A j \in 1..Len(pure.context.formData[i].key) :
            pure.context.formData[i].key[j] \in RegexWord

\* C17: only the substrings equal to {{key}} for a key of the table are
\* replaced, each by the key's value as it is: a text that is one such
\* placeholder, of a key whose value holds no {{, resolves to the value,
\* and a text that holds no such placeholder is returned unchanged
C17_ExactMatchSubstitution ==
    (pure.fn = "resolve" /\ pure.done)
      => LET table == VariableTable(pure.context)
         IN  /\ \A i \in 1..Len(table) :
                   (/\ pure.text = Placeholder(table[i].key)
                    /\ ~Includes(table[i].value, OpenBraces))
                     => pure.out = table[i].value
             /\ ~HoldsKnownPlaceholder(pure.text, table) => pure.out = pure.text

\* the keys of the variable table that do not come from the form data
AmbientKeys == TableKeys(VariableTable(ResolverContext(<<>>, <<>>)))

\* C18: with a form field named like an ambient key, the placeholder of
\* that key alone resolves to the field's value when that value holds
\* neither {{ nor $, and the table has the field's value in the place of
\* the ambient one; with a field named clipboard every text resolves as it
\* would with the field's value as the ambient clipboard
C18_FormDataShadowing ==
    (/\ pure.fn = "resolve"
     /\ pure.done
     /\ Len(pure.context.formData) = 1
     /\ pure.context.formData[1].key \in AmbientKeys)
      => LET k     == pure.context.formData[1].key
             v     == pure.context.formData[1].value
             table == VariableTable(pure.context)
         IN  /\ Len(table) = Cardinality(AmbientKeys)
             /\ \A i \in 1..Len(table) : table[i].key = k => table[i].value = v
             /\ (/\ pure.text = Placeholder(k)
                 /\ ~Includes(v, OpenBraces)
                 /\ ~Includes(v, <<"$">>))
                  => pure.out = v
             /\ k = ClipboardKey
                  => pure.out = resolveVariables(
                                   pure.text,
                                   [pure.context EXCEPT !.formData = <<>>,
                                                        !.clipboard = v])

\* {{clipboard}} has resolved to the value v of the form field clipboard
\* while the ambient clipboard held c
C18_Witness ==
    /\ pure.fn = "resolve"
    /\ pure.done
    /\ pure.text = Placeholder(ClipboardKey)
    /\ pure.context.formData = <<Field(ClipboardKey, <<"v">>)>>
    /\ pure.context.clipboard = <<"c">>
    /\ pure.out = <<"v">>

\* letters, digits, underscore and hyphen
NameChars == Letters \cup UpperLetters \cup Digits \cup {"_", "-"}

\* the lengths k >= 1 for which the text ends with the prefix followed by
\* k name characters
NameRuns(text, prefix) ==
    LET n == Len(text)
    IN  {k \in 1..(n - 1) :
            /\ text[n - k] = prefix
            /\ \A j \in (n - k + 1)..n : text[j] \in NameChars}

\* C19: the scan matches iff the text before the cursor ends with the
\* prefix followed by one or more name characters; the trigger is then that
\* run (the longest, when the prefix is itself a name character) and the
\* span is [cursor - (length(name) + 1), cursor); a cursor at 0 and a prefix
\* with nothing after it do not match, and hello :sn gives sn over the last
\* 3 characters; with the configured prefix handleTriggerKey and
\* handleTextInput scan the same way
C19_TriggerScanner ==
    (pure.fn = "scan" /\ pure.done)
      => LET before == SubSeq(pure.text, 1, pure.cursor)
             runs   == NameRuns(before, pure.prefix)
             k      == Len(pure.out.trigger)
         IN  /\ pure.out.matched <=> runs # {}
             /\ pure.out.matched
                  => /\ k \in runs
                     /\ \A r \in runs : r <= k
                     /\ pure.out.trigger = SubSeq(before, pure.cursor - k + 1, pure.cursor)
                     /\ pure.out.startPos = pure.cursor - (k + 1)
                     /\ pure.out.endPos = pure.cursor
             /\ pure.cursor = 0 => ~pure.out.matched
             /\ (pure.text = HelloColon /\ pure.prefix = ":" /\ pure.cursor >= 7)
                  => ~pure.out.matched
             /\ (pure.text = HelloSn /\ pure.prefix = ":" /\ pure.cursor = 9)
                  => /\ pure.out.matched
                     /\ pure.out.trigger = <<"s", "n">>
                     /\ pure.out.startPos = 6
             /\ pure.prefix = triggerPrefix
                  => /\ pure.out.key.prevented = pure.out.matched
                     /\ pure.out.matched
                          => /\ pure.out.key.trigger = pure.out.trigger
                             /\ pure.out.key.startPos = pure.out.startPos
                             /\ pure.out.key.endPos = pure.out.endPos
                     /\ pure.out.input # "none" => pure.out.matched

\* hello :sn has been scanned with the cursor at its end
C19_Witness ==
    /\ pure.fn = "scan"
    /\ pure.done
    /\ pure.text = HelloSn
    /\ pure.cursor = 9
    /\ pure.prefix = ":"
    /\ pure.out.matched
    /\ pure.out.trigger = <<"s", "n">>
    /\ pure.out.startPos = 6
    /\ pure.out.endPos = 9

\* C20: for 0 <= start <= end <= length(T), replaceText on a flat buffer T
\* leaves T[0:start] + newText + T[end:] and puts the selection at
\* start + length(newText)
C20_FlatSplice ==
    (/\ pure.fn = "splice"
     /\ pure.done
     /\ 0 <= pure.startPos
     /\ pure.startPos <= pure.endPos
     /\ pure.endPos <= Len(pure.text))
      => /\ pure.out.value = SubSeq(pure.text, 1, pure.startPos) \o pure.newText
                             \o SubSeq(pure.text, pure.endPos + 1, Len(pure.text))
         /\ pure.out.caret = pure.startPos + Len(pure.newText)
         /\ ~pure.out.threw

\* a non-empty range strictly inside the buffer has been replaced by a
\* text of another length
C20_Witness ==
    /\ pure.fn = "splice"
    /\ pure.done
    /\ 0 < pure.startPos
    /\ pure.startPos < pure.endPos
    /\ pure.endPos < Len(pure.text)
    /\ Len(pure.newText) = 2
    /\ Len(pure.out.value) = Len(pure.text) + 1
    /\ pure.out.caret = pure.startPos + 2

\* C21: a committed expansion over [start, end) of a structured surface
\* with plain text T, whatever its text leaves, leaves the plain text
\* T[0:start] + newText + T[end:]
C21_StructuredSplice ==
    (/\ pure.fn = "leafsplice"
     /\ pure.done
     /\ pure.startPos < pure.endPos
     /\ \A k \in 1..Len(pure.leaves) : pure.leaves[k] # <<>>)
      => LET T == PlainText(pure.leaves)
         IN  /\ ~pure.out.threw
             /\ PlainText(pure.out.leaves)
                   = SubSeq(T, 1, pure.startPos) \o pure.newText
                     \o SubSeq(T, pure.endPos + 1, Len(T))

\* the cumulative end offset of the k-th leaf
CumulativeEnd(leaves, k) == Len(PlainText(SubSeq(leaves, 1, k)))

\* C22: findTextNode returns the first leaf whose cumulative end offset is
\* >= p, the earlier leaf for a position on a leaf boundary, and no leaf
\* when p exceeds the total length or there are no leaves
C22_LeafSelection ==
    (/\ pure.fn = "find"
     /\ pure.done)
      => LET reach == {k \in 1..Len(pure.leaves) :
                         CumulativeEnd(pure.leaves, k) >= pure.position}
         IN  /\ reach # {} => /\ pure.out \in reach
                              /\ \A k \in reach : pure.out <= k
             /\ reach = {} => pure.out = 0
             /\ pure.position > Len(PlainText(pure.leaves)) => pure.out = 0
             /\ pure.leaves = <<>> => pure.out = 0
             /\ \A k \in 1..(Len(pure.leaves) - 1) :
                   (/\ pure.position = CumulativeEnd(pure.leaves, k)
                    /\ Len(pure.leaves[k]) > 0
                    /\ Len(pure.leaves[k + 1]) > 0)
                     => pure.out = k

\* a position on the boundary between two non-empty leaves has selected the
\* earlier one
C22_Witness ==
    /\ pure.fn = "find"
    /\ pure.done
    /\ Len(pure.leaves) = 3
    /\ \A k \in 1..3 : Len(pure.leaves[k]) > 0
    /\ pure.position = CumulativeEnd(pure.leaves, 2)
    /\ pure.out = 2

\* the content of the call starts with a marker [template:<name>] whose
\* name is one or more word characters
StartsWithMarker(call) ==
    /\ call.lead = <<>>
    /\ call.opening = TemplateMarker
    /\ call.name # <<>>
    /\ \A i \in 1..Len(call.name) : call.name[i] \in RegexWord
    /\ call.closing = <<"]">>

\* C23: applyTemplateWrapping returns template.pre + rest + template.post
\* when the content starts with a marker whose name is in the dictionary,
\* and the content unchanged when it does not start with a marker
C23_TemplateWrapping ==
    (/\ pure.fn = "wrap"
     /\ pure.done)
      => /\ (StartsWithMarker(pure) /\ pure.name \in DOMAIN pure.templates)
               => pure.out = pure.templates[pure.name].pre \o pure.rest
                             \o pure.templates[pure.name].post
         /\ ~StartsWithMarker(pure) => pure.out = WrapContent(pure)

\* a marker with a known name and a rest of two lines has been wrapped
C23_Witness ==
    /\ pure.fn = "wrap"
    /\ pure.done
    /\ StartsWithMarker(pure)
    /\ pure.name = <<"e", "_", "1">>
    /\ pure.rest = <<"r", "\n", "q">>
    /\ pure.out = <<"r", "\n", "q", "!", "!">>

\* C24: when the content starts with a marker whose name is not in the
\* dictionary, the result is the bare rest-content
C24_AbsentTemplate ==
    (/\ pure.fn = "wrap"
     /\ pure.done
     /\ StartsWithMarker(pure)
     /\ pure.name \notin DOMAIN pure.templates)
      => pure.out = pure.rest

\* C25: every splice an expansion makes on a flat-value surface dispatches
\* both an 'input' and a 'change' event on the surface
C25_ChangeNotification ==
    roundTrip.phase = "spliced" => roundTrip.dispatched = {"input", "change"}

\* the usage notifications a step has sent
UsageSent(event) ==
    SelectSeq(event.sent, LAMBDA m : m.type = "TRACK_USAGE")

\* C26: a step sends a usage notification iff it is the arrival of a
\* response that spliced the expansion into the surface, and then it sends
\* exactly one, with the trigger key and the page's domain, and leaves the
\* guard released without waiting for a reply
C26_UsageNotification ==
    [][ IF lastEvent'.kind = "response" /\ dom' # dom
        THEN /\ UsageSent(lastEvent')
                  = <<Message("TRACK_USAGE", Completed.trigger, Domain)>>
             /\ ~isProcessing'
        ELSE UsageSent(lastEvent') = <<>> ]_vars

\* C27: the response reports tokens = ceil(length(resolved) / 4), 0 for the
\* empty string; the advisory is shown iff tokens > 100, that is iff the
\* resolved string has at least 401 characters; with or without it the
\* content is spliced, one record is pushed and the guard is released
C27_TokenEstimate ==
    (/\ pure.fn = "tokens"
     /\ pure.done)
      => /\ 4 * pure.out.tokens >= pure.length
         /\ 4 * (pure.out.tokens - 1) < pure.length
         /\ pure.length = 0 => pure.out.tokens = 0
         /\ (pure.out.notice = "tokens") <=> (pure.out.tokens > 100)
         /\ (pure.out.notice = "tokens") <=> (pure.length >= 401)
         /\ pure.out.notice \in {"tokens", NoNotice}
         /\ pure.out.value = PlainContent(pure.length)
         /\ pure.out.records = 1
         /\ ~pure.out.isProcessing

\* a resolved string of 401 characters is estimated at 101 tokens and the
\* advisory is shown
C27_Witness ==
    /\ pure.fn = "tokens"
    /\ pure.done
    /\ pure.length = 401
    /\ pure.out.tokens = 101
    /\ pure.out.notice = "tokens"
    /\ Len(pure.out.value) = 401

\* the line of a field: its lower-cased label with the words separated by
\* single spaces, ": " and its value
RECURSIVE LinePerField(_)
LinePerField(fields) ==
    IF fields = <<>> THEN <<>>
    ELSE UnderscoresToSpaces(FormDataKey(Head(fields).label)) \o <<":", " ">>
         \o Head(fields).value \o <<"\n">> \o LinePerField(Tail(fields))

\* C28: the output generated from a list of fields that passes validation
\* is one line per field, in field order, also when labels repeat
C28_FormSerialization ==
    (/\ pure.fn = "form"
     /\ pure.done
     /\ pure.out.valid)
      => pure.out.output = LinePerField(pure.fields)

\* C29: with no edit of the user in between, each undo pops exactly one
\* record and overwrites the whole text of the record's surface with the
\* record's originalText, and once the undos have emptied the history
\* every surface shows the text it had before the first expansion
C29_NestedRollback ==
    [][ /\ expansionHistory' = <<>>
            => \A e \in Elements : ShownText(dom', e) = LoadedText(dom', e)
        /\ (/\ lastEvent'.kind = "undo"
            /\ lastEvent'.handled
            /\ expansionHistory # <<>>)
            => LET n    == Len(expansionHistory)
                   last == expansionHistory[n]
               IN  /\ expansionHistory' = SubSeq(expansionHistory, 1, n - 1)
                   /\ ShownText(dom', last.element) = last.originalText
                   /\ \A e \in Elements \ {last.element} : dom'[e] = dom[e] ]_vars

\* two expansions nested in the textarea, the second of the trigger that
\* the first one inserted, and one undo: the text is the one between them
C29_Witness ==
    /\ lastEvent.kind = "undo"
    /\ lastEvent.handled
    /\ Len(expansionHistory) = 1
    /\ expansionHistory[1].element = "ta"
    /\ expansionHistory[1].originalText = <<"x", ":", "a">>
    /\ dom["ta"].value = <<"x", "<", ":", "a">>
    /\ dom["ta"].caret = 4

\* C30: undoing a record of a structured (contenteditable) surface replaces
\* the surface's plain text with record.originalText and puts the cursor at
\* record.endPos, a position of that text
C30_StructuredUndo ==
    [][ (/\ lastEvent'.kind = "undo"
         /\ lastEvent'.handled
         /\ expansionHistory # <<>>
         /\ isContentEditable[expansionHistory[Len(expansionHistory)].element])
          => LET last == expansionHistory[Len(expansionHistory)]
                 e    == last.element
             IN  /\ dom'[e].textContent = last.originalText
                 /\ 0 <= last.endPos
                 /\ last.endPos <= Len(last.originalText)
                 /\ dom'[e].caret = last.endPos ]_vars

\* C31: when the response arrives, whatever happened during the suspension,
\* the content is spliced into the surface captured at commit, at the
\* [startPos, endPos) captured at commit, and no other surface changes
C31_NoStalenessCheck ==
    [][ (/\ lastEvent'.kind = "response"
         /\ inflight # inflight')
          => LET f       == Completed
                 e       == f.element
                 T       == ShownText(dom, e)
                 content == expansionHistory'[Len(expansionHistory')].expandedContent
             IN  /\ ShownText(dom', e) = Substring(T, 0, f.startPos) \o content
                                         \o SubstringFrom(T, f.endPos)
                 /\ ShownText(dom', e) # T
                 /\ \A x \in Elements \ {e} : dom'[x] = dom[x] ]_vars

\* the resolve requests a step has sent
ResolveSent(event) ==
    SelectSeq(event.sent, LAMBDA m : m.type = "RESOLVE_VARIABLES")

\* C32: the resolve request is sent when the clipboard read has settled and
\* not before; when the response arrives the pushed record holds the text
\* before the splice and the wrapped resolved content, that content is
\* spliced in, one usage notification is sent and the guard, set until
\* then, is cleared; one record and one notification per expansion
C32_StepOrder ==
    [][ /\ ResolveSent(lastEvent') # <<>>
            => /\ lastEvent'.kind \in {"clipboard", "clipboard-failed"}
               /\ Completed.pc = "clipboard"
               /\ Len(ResolveSent(lastEvent')) = 1
               /\ isProcessing /\ isProcessing'
        /\ (lastEvent'.kind = "key" /\ inflight' # inflight)
            => /\ lastEvent'.sent = <<>>
               /\ isProcessing'
               /\ \A f \in inflight' \ inflight : f.pc = "clipboard"
        /\ (lastEvent'.kind = "response" /\ inflight # inflight')
            => LET f       == Completed
                   e       == f.element
                   T       == ShownText(dom, e)
                   context == AmbientContext @@ [clipboard |-> f.clipboard]
                   content == applyTemplateWrapping(
                                 resolveVariables(snippets[f.trigger].content,
                                                  context),
                                 templates)
                   n       == Len(expansionHistory)
               IN  /\ f.pc = "resolve"
                   /\ isProcessing
                   /\ Len(expansionHistory') = n + 1
                   /\ SubSeq(expansionHistory', 1, n) = expansionHistory
                   /\ expansionHistory'[n + 1].originalText = T
                   /\ expansionHistory'[n + 1].expandedContent = content
                   /\ ShownText(dom', e) = Substring(T, 0, f.startPos) \o content
                                           \o SubstringFrom(T, f.endPos)
                   /\ lastEvent'.sent
                         = <<Message("TRACK_USAGE", f.trigger, Domain)>>
                   /\ ~isProcessing' ]_vars

\* the response has arrived for :a committed after x with the clipboard
\* holding c: the record holds x:a and <c, the text is x<c, the usage
\* notification is out and the guard is clear
C32_Witness ==
    /\ lastEvent.kind = "response"
    /\ lastEvent.sent = <<Message("TRACK_USAGE", <<"a">>, Domain)>>
    /\ ~isProcessing
    /\ Len(expansionHistory) = 1
    /\ expansionHistory[1].originalText = <<"x", ":", "a">>
    /\ expansionHistory[1].expandedContent = <<"<", "c">>
    /\ dom["ta"].value = <<"x", "<", "c">>

\* C33: after an input event that the listener handles, the one pending
\* scan is of that event's target; the debounced scan, whatever it
\* matches, changes no surface, neither the history nor the guard, starts
\* no expansion and leaves no scan pending; an expansion is started only
\* in the step of a commit key
C33_Debounce ==
    [][ /\ lastEvent'.kind = "edit"
            => \A e \in Elements :
                  (dom'[e] # dom[e] /\ shouldProcessElement(e, isProcessing))
                     => debounceTimer' = e
        /\ lastEvent'.kind = "scan"
            => /\ debounceTimer # NoElement
               /\ debounceTimer' = NoElement
               /\ UNCHANGED <<dom, expansionHistory, isProcessing, inflight>>
               /\ modals' \in {modals, Append(modals, debounceTimer)}
        /\ Cardinality(inflight') > Cardinality(inflight)
            => /\ lastEvent'.kind = "key"
               /\ lastEvent'.handled ]_vars

\* both surfaces hold the pasted form trigger and the one scan that
\* followed has opened the form for the region, the later target
C33_Witness ==
    /\ lastEvent.kind = "scan"
    /\ debounceTimer = NoElement
    /\ modals = <<"ce">>
    /\ dom["ta"].value = <<":">> \o FormTrigger
    /\ dom["ce"].textContent = <<":">> \o FormTrigger
    /\ expansionHistory = <<>>
    /\ ~isProcessing

\* C34: a handled commit key after the form trigger removes the span of the
\* trigger from the surface and opens the form for it; it sends no
\* message, adds no call and no history record and leaves the guard as
\* it was
C34_FormPathIsolation ==
    [][ \A e \in Elements :
          ( /\ lastEvent'.kind = "key"
            /\ lastEvent'.target = e
            /\ lastEvent'.handled
            /\ handleTriggerKey(dom, e).branch = "form" )
          => LET text   == ElementText(dom, e)
                 before == Substring(text, 0, selectionStart(dom, e))
                 m      == ScanAtCursor(dom, e)
             IN  /\ ShownText(dom', e) =
                       SubSeq(text, 1, Len(before) - m.length)
                          \o SubSeq(text, Len(before) + 1, Len(text))
                 /\ \A o \in Elements \ {e} : dom'[o] = dom[o]
                 /\ modals' = Append(modals, e)
                 /\ lastEvent'.sent = <<>>
                 /\ UNCHANGED <<inflight, expansionHistory, isProcessing>> ]_vars

\* C35: the history grows by exactly one record, behind the records it
\* holds, in the step of a successful expansion, loses exactly its last
\* record in the step of an undo handled on a non-empty history, and
\* changes in no other step: its depth is the number of the former less
\* the number of the latter, and no record is evicted
C35_HistoryAccounting ==
    [][ IF lastEvent'.kind = "response" /\ dom' # dom
        THEN expansionHistory' =
                Append(expansionHistory, expansionHistory'[Len(expansionHistory')])
        ELSE IF lastEvent'.kind = "undo" /\ lastEvent'.handled
                   /\ expansionHistory # <<>>
        THEN expansionHistory' =
                SubSeq(expansionHistory, 1, Len(expansionHistory) - 1)
        ELSE expansionHistory' = expansionHistory ]_vars

\* C36: a Ctrl+Z pressed while an expansion is in flight is not handled:
\* the history and every surface stay as they were, and so does the
\* expansion in flight
C36_UndoDuringExpansion ==
    [][ (lastEvent'.kind = "undo" /\ inflight # {})
           => /\ ~lastEvent'.handled
              /\ ~lastEvent'.prevented
              /\ UNCHANGED <<dom, expansionHistory, inflight, isProcessing>> ]_vars

\* Ctrl+Z was pressed and ignored while a record was there to undo and a
\* second expansion was waiting for its answer
C36_Witness ==
    /\ lastEvent.kind = "undo"
    /\ ~lastEvent.handled
    /\ expansionHistory # <<>>
    /\ \E f \in inflight : f.pc = "resolve"
    /\ isProcessing

\* C37: the step in which the answered call splices a flat surface and
\* dispatches 'input' on it leaves the debounce timer as it was and starts
\* no call: the call it ends is the only change of the calls in flight
\* and the history gains exactly one record; a commit key starts at most
\* one call
C37_NoSelfTriggering ==
    [][ /\ (lastEvent'.kind = "response" /\ "input" \in roundTrip'.dispatched)
           => /\ debounceTimer' = debounceTimer
              /\ inflight' \subseteq inflight
              /\ Cardinality(inflight') = Cardinality(inflight) - 1
              /\ Len(expansionHistory') = Len(expansionHistory) + 1
              /\ SubSeq(expansionHistory', 1, Len(expansionHistory))
                    = expansionHistory
        /\ lastEvent'.kind = "key"
           => /\ Cardinality(inflight') <= Cardinality(inflight) + 1
              /\ UNCHANGED expansionHistory ]_vars

\* the splice has dispatched 'input' on the textarea; no scan is pending,
\* no call is in flight and the history holds the one record
C37_Witness ==
    /\ lastEvent.kind = "response"
    /\ roundTrip.phase = "spliced"
    /\ roundTrip.element = "ta"
    /\ "input" \in roundTrip.dispatched
    /\ dom["ta"].value # roundTrip.before
    /\ debounceTimer = NoElement
    /\ inflight = {}
    /\ Len(expansionHistory) = 1

\* C38: once every TRACK_USAGE message has been handled, the stored count
\* is the number of messages and the stored domains are the reporting
\* domains, each once, if analytics is enabled; if it is disabled nothing
\* is stored
C38_UsageCounter ==
    (pure.fn = "usage" /\ pure.pending = {} /\ Len(pure.delivered) >= 1)
       => IF pure.analyticsEnabled
          THEN /\ pure.entry.present
               /\ pure.entry.count = Len(pure.delivered)
               /\ {pure.entry.domains[i] : i \in 1..Len(pure.entry.domains)}
                     = {pure.delivered[i] : i \in 1..Len(pure.delivered)}
               /\ \A i, j \in 1..Len(pure.entry.domains) :
                     pure.entry.domains[i] = pure.entry.domains[j] => i = j
          ELSE pure.entry = NoEntry

====
